---- MODULE Spec2Model ----
(***************************************************************************)
(* Model of the essay search engine client: the SearchEngine class         *)
(* (src/src/search.js 1-151), the service worker that caches the dataset   *)
(* and checks for updates (src/src/search.js 153-459, the later revision   *)
(* of src/src/service-worker.js) and the page script that wires them       *)
(* together (src/src/main.js).                                             *)
(*                                                                         *)
(* Strings are sequences of one-character strings so that split(',') and   *)
(* trim() are computed, not assumed.  A cached response is represented by  *)
(* the dataset version it was fetched at (0 = no entry): the body of       *)
(* metadata.json at version v is ServerManifest(v), that of version.json   *)
(* is VersionJson(v), that of embeddings.json is Embeddings(v).            *)
(*                                                                         *)
(* Specifications: Spec (a first visit and the sessions that follow),      *)
(* SpecSearch (the SearchEngine over a family of manifests), SpecInstall   *)
(* (installation up to activation, with fairness), SpecUpgrade (the worker *)
(* replacing the one of src/src/service-worker.js) and SpecFetch (the      *)
(* fetch handler over a family of requests).                               *)
(***************************************************************************)
EXTENDS Integers, Sequences, FiniteSets, TLC

\* ------------------------------------------------------------------ bounds
\* Number of dataset versions the server publishes during a run.
MaxVersion == 2
\* Largest manifest (number of chunks) drawn for the pure search checks.
MaxChunks == 2
\* Longest result list handed to the pagination (eight pages).
MaxResults == 180

\* ----------------------------------------------------------------- strings
\* chunk.tags === undefined (the field is optional in metadata.json).
Undefined == <<"<undefined>">>

IsSpace(c) == c = " "

RECURSIVE TrimStart(_)
\* String.prototype.trim, leading part.
TrimStart(s) ==
  IF s = <<>> THEN <<>>
  ELSE IF IsSpace(Head(s)) THEN TrimStart(Tail(s)) ELSE s

RECURSIVE TrimEnd(_)
\* String.prototype.trim, trailing part.
TrimEnd(s) ==
  IF s = <<>> THEN <<>>
  ELSE IF IsSpace(s[Len(s)]) THEN TrimEnd(SubSeq(s, 1, Len(s) - 1)) ELSE s

\* Variant: no trimming at all.
TrimNothing(s) == s

\* String.prototype.trim.
Trim(s) == TrimEnd(TrimStart(s))

RECURSIVE SplitFrom(_, _, _)
\* String.prototype.split(sep) for a one-character separator: cur is the
\* piece being read; "" splits to [""], "a," to ["a", ""].
SplitFrom(s, sep, cur) ==
  IF s = <<>> THEN <<cur>>
  ELSE IF Head(s) = sep THEN <<cur>> \o SplitFrom(Tail(s), sep, <<>>)
  ELSE SplitFrom(Tail(s), sep, Append(cur, Head(s)))

Split(s, sep) == SplitFrom(s, sep, <<>>)

\* Array.prototype.map(t => t.trim()).
MapTrim(parts) == [i \in 1..Len(parts) |-> Trim(parts[i])]

\* String.prototype.toLowerCase over the letters of the test data.
ToLowerCase(s) == [i \in 1..Len(s) |-> IF s[i] = "A" THEN "a" ELSE s[i]]

\* Variant: both sides lower-cased before the comparison.
IncludesIgnoringCase(arr, x) ==
  \E i \in 1..Len(arr) : ToLowerCase(arr[i]) = ToLowerCase(x)

\* Array.prototype.includes.
Includes(arr, x) == \E i \in 1..Len(arr) : arr[i] = x

\* String.prototype.includes (substring test).
Contains(s, sub) ==
  \E i \in 0..(Len(s) - Len(sub)) : SubSeq(s, i + 1, i + Len(sub)) = sub

\* Array.prototype.slice(0, n).
Slice(arr, n) == SubSeq(arr, 1, IF n < Len(arr) THEN n ELSE Len(arr))

\* -------------------------------------------------------------- test data
an == <<"a", "n">>
ca == <<"c", "a">>
tr == <<"t", "r">>

\* Values of chunk.tags met in metadata.json: missing, empty, one tag (also
\* capitalised), several tags with and without blanks around the delimiter.
TagStrings ==
  { Undefined, <<>>, an, <<"A", "n">>,
    an \o <<",", " ">> \o ca,
    <<" ">> \o ca \o <<" ", ",">> \o tr,
    <<"a", "n", "c", "a">> }

\* Tag filters handed to search: [] and one or two requested tags.
TagNames == { an, ca, tr, <<>>, <<" ">> \o an }
TagFilters ==
  {<<>>} \cup { <<t>> : t \in TagNames } \cup { <<an, ca>>, <<ca, tr>> }

\* Query strings: none, blank, three matching keywords (ca occurs in tags
\* only), one that matches nothing.
Queries == { <<>>, <<" ">>, tr, <<" ">> \o an, ca, <<"z", "z">> }

\* limit argument: 0 stands for null (no limit).
Limits == { 0, 1 }

\* Chunk records of metadata.json (the fields search reads).
Chunk(id, title, tags) == [chunk_id |-> id, book_title |-> title, tags |-> tags]

Titles == <<tr \o <<" ">> \o an, <<"i", "n">>, <<"o", "u">>, ca>>

\* metadata.json: { total_chunks, chunks }.
Manifest(chunks) == [total_chunks |-> Len(chunks), chunks |-> chunks]

\* this.metadata === null.
NullManifest == [total_chunks |-> -1, chunks |-> <<>>]

\* Manifests of at most MaxChunks chunks over TagStrings.
Manifests ==
  UNION { { Manifest([i \in 1..n |->
                        Chunk(i - 1, Titles[((i - 1) % Len(Titles)) + 1], f[i])]) :
              f \in [1..n -> TagStrings] } : n \in 0..MaxChunks }

\* ------------------------------------------------------------ SearchEngine
\* What the filter callback yields when reading .split of undefined throws.
TypeError == << <<"<TypeError>">> >>

\* Variant: chunk.tags.split(',') without the optional chaining.
chunkTagsUnguarded(chunk) ==
  IF chunk.tags = Undefined THEN TypeError ELSE MapTrim(Split(chunk.tags, ","))

\* chunk.tags?.split(',').map(t => t.trim()) || []
chunkTags(chunk) ==
  IF chunk.tags = Undefined THEN <<>> ELSE MapTrim(Split(chunk.tags, ","))

\* Variant: tags.some(...) in place of tags.every(...) (OR semantics).
TagsMatchSome(chunk, tags) ==
  \E i \in 1..Len(tags) : Includes(chunkTags(chunk), tags[i])

\* tags.every(tag => chunkTags.includes(tag)): ALL requested tags must match.
TagsMatch(chunk, tags) ==
  \A i \in 1..Len(tags) : Includes(chunkTags(chunk), tags[i])

RECURSIVE FilterByTags(_, _)
\* results.filter(chunk => tags.every(...)), keeping manifest order.
FilterByTags(chunks, tags) ==
  IF chunks = <<>> THEN <<>>
  ELSE IF TagsMatch(Head(chunks), tags)
       THEN <<Head(chunks)>> \o FilterByTags(Tail(chunks), tags)
       ELSE FilterByTags(Tail(chunks), tags)

\* An exception in the filter callback leaves results.filter and search:
\* there is no try/catch in search.
filterThrows(chunks, tags) ==
  Len(tags) > 0 /\ \E i \in 1..Len(chunks) : chunkTags(chunks[i]) = TypeError

\* Fuse option minMatchCharLength.
MinMatchCharLength == 2

\* Fuse.js field match with ignoreLocation: the pattern occurs in the field
\* and is at least minMatchCharLength long (fuzziness is not modelled: the
\* library is external; an exact occurrence is the zero-error case).
FieldMatches(field, pattern) ==
  /\ field # Undefined
  /\ Len(pattern) >= MinMatchCharLength
  /\ Contains(field, pattern)

\* Fuse.js item score, 0 = perfect, in thousandths; 1000 = no key matched.
\* A heavier key (book_title 0.4 over tags 0.2) gives the smaller score.
FuseScore(chunk, pattern) ==
  LET t == FieldMatches(chunk.book_title, pattern)
      g == FieldMatches(chunk.tags, pattern)
  IN  IF t /\ g THEN 1 ELSE IF t THEN 2 ELSE IF g THEN 3 ELSE 1000

RECURSIVE InsertByScore(_, _)
\* Fuse.js sorts by score, ties by index: insertion after equal scores.
InsertByScore(sorted, r) ==
  IF sorted = <<>> THEN <<r>>
  ELSE IF r.score < Head(sorted).score THEN <<r>> \o sorted
  ELSE <<Head(sorted)>> \o InsertByScore(Tail(sorted), r)

RECURSIVE FuseCollect(_, _)
\* fuse.search(pattern): the matching items with their scores, best first.
FuseCollect(items, pattern) ==
  IF items = <<>> THEN <<>>
  ELSE LET last == items[Len(items)]
           rest == FuseCollect(SubSeq(items, 1, Len(items) - 1), pattern)
       IN  IF FuseScore(last, pattern) < 1000
           THEN InsertByScore(rest, [item |-> last, score |-> FuseScore(last, pattern)])
           ELSE rest

\* Variant: one search per key, the title matches followed by the tag
\* matches (an item matching on both keys is listed twice).
FuseSearchPerKey(items, pattern) ==
  FuseCollect(SelectSeq(items, LAMBDA c : FieldMatches(c.book_title, pattern)), pattern)
    \o FuseCollect(SelectSeq(items, LAMBDA c : FieldMatches(c.tags, pattern)), pattern)

\* Variant: equal scores come out last-indexed first.
FuseSearchTiesReversed(items, pattern) ==
  FuseCollect([i \in 1..Len(items) |-> items[Len(items) + 1 - i]], pattern)

\* Variant: the score of an item grows with the size of the collection
\* searched.
FuseSearchScaledByCollection(items, pattern) ==
  LET fr == FuseCollect(items, pattern)
  IN  [i \in 1..Len(fr) |-> [item |-> fr[i].item, score |-> fr[i].score + Len(items)]]

FuseSearch(items, pattern) == FuseCollect(items, pattern)

\* SearchEngine.search after the readiness guard: tag filter, then fuzzy
\* search within the filtered chunks, then the optional limit.  Scores are
\* in thousandths (1000 = 1.0).
SearchResults(metadata, query, tags, limit) ==
  LET filtered == IF Len(tags) > 0 THEN FilterByTags(metadata.chunks, tags)
                  ELSE metadata.chunks
      ranked ==
        IF Len(Trim(query)) > 0
        THEN LET fr == FuseSearch(filtered, Trim(query))
             IN  [i \in 1..Len(fr) |-> [chunk |-> fr[i].item, score |-> 1000 - fr[i].score]]
        ELSE [i \in 1..Len(filtered) |-> [chunk |-> filtered[i], score |-> 1000]]
  IN  IF limit # 0 THEN Slice(ranked, limit) ELSE ranked

\* ------------------------------------------------------------------ server
\* Chunk list published as data/metadata.json at dataset version v: the
\* three chunks of the reference dataset, plus one new chapter per sync.
ServerChunks(v) ==
  LET base == << Chunk(0, Titles[1], tr), Chunk(1, Titles[2], an),
                 Chunk(2, Titles[3], an \o <<",", " ">> \o ca) >>
  IN  base \o [i \in 1..(v - 1) |-> Chunk(2 + i, Titles[4], ca)]

ServerManifest(v) == Manifest(ServerChunks(v))

\* data/embeddings.json at version v: one vector per chunk (only the
\* length of the array is kept).
Embeddings(v) == [count |-> Len(ServerChunks(v))]

\* data/version.json at version v: the checksum of embeddings.json.
VersionJson(v) == [checksum |-> v]

\* ---------------------------------------------------------- service worker
\* Keys of the cache CACHE_NAME that hold the dataset.
MetadataUrl == "data/metadata.json"
VersionUrl == "data/version.json"
EmbeddingsUrl == "data/embeddings.json"

\* The dataset entries of ASSETS_TO_CACHE.
ASSETS_TO_CACHE == { MetadataUrl, VersionUrl, EmbeddingsUrl }

\* Cache names: the worker's own two, and that of the previous worker
\* (src/src/service-worker.js).
CACHE_NAME == "essay-search-v2"
MODEL_CACHE_NAME == "transformers-model-v1"
OLD_CACHE_NAME == "essay-search-v1"

\* A cache left by other code of the origin.
StaleCacheName == "stale-cache"

\* Names caches.keys() may list besides CACHE_NAME.
OtherCacheNames == { OLD_CACHE_NAME, MODEL_CACHE_NAME, StaleCacheName }

CACHES_TO_KEEP == { CACHE_NAME, MODEL_CACHE_NAME }

\* Value of stores[name] for a cache that does not exist.
Absent == -1

\* Reply port of a CHECK_FOR_UPDATES message: event.ports?.[0] || null.
NoPort == "null"

\* Identities of the checkForUpdates invocations that run concurrently (the
\* message handler does not await one before starting the next).
CheckIds == { 1, 2 }

VARIABLES
  live,         \* dataset version the server publishes now
  isOnline,     \* navigator.onLine / main.js isOnline
  cache,        \* CACHE_NAME: url -> version of the stored response, 0 = none
  sw,           \* worker lifecycle: phase, cache.add calls still pending
  controller,   \* navigator.serviceWorker.controller is set for the page
  checks,       \* checkForUpdates invocations, by CheckIds
  servePut,     \* un-awaited cache.put of the fetch handler (version, 0 = none)
  clientInbox,  \* messages posted to the page's 'message' listener
  page,         \* main.js module state of the current session
  engine,       \* the session's SearchEngine
  lastSearch,   \* outcome of the last SearchEngine.search call
  stores,       \* the other named caches of the origin (Absent, or the
                \* version of their metadata.json entry, 0 = no entry)
  old,          \* in-flight fetch handler of the previous worker instance
  request,      \* a fetch event dispatched to the worker and its handling
  entries,      \* keys of CACHE_NAME besides the dataset (host, path)
  ui            \* main.js search state: input, badges, results, page

vars == << live, isOnline, cache, sw, controller, checks, servePut,
           clientInbox, page, engine, lastSearch, stores, old, request,
           entries, ui >>

\* Outcomes of a network fetch: a 200 response, a non-OK response, a
\* rejected promise.  Offline, every fetch rejects.
FetchOutcomes == IF isOnline THEN { "ok", "http", "throw" } ELSE { "throw" }

\* A worker that is not registered: lifecycle phase, cache.add calls and
\* chunk-page adds still pending, caches the activate handler has still to
\* delete and those it has deleted.
NoWorker == [phase |-> "unregistered", pending |-> {}, chunks |-> 0,
             toDelete |-> {}, deleted |-> {}]

\* No request of the previous instance in flight; resp is the network
\* response it is about to put.
NoOld == [pc |-> "none", resp |-> 0]

\* No fetch event under consideration.
NoRequest == [pc |-> "none", method |-> "", hostname |-> <<>>, pathname |-> <<>>,
              answer |-> "none", status |-> 0]

IdleCheck == [pc |-> "idle", port |-> NoPort, newVersion |-> 0, emb |-> 0,
              reports |-> <<>>]

\* Body of a response that is no JSON (the 404 page of the site).
BadBody == [total_chunks |-> -2, chunks |-> <<>>]

\* new SearchEngine(); pc and resp are the position of initialize() and the
\* body of the response it awaits (NullManifest: none yet); via tells where
\* that response came from: the worker's store or the network.
NewEngine == [isReady |-> FALSE, isLoading |-> FALSE, metadata |-> NullManifest,
              fuse |-> FALSE, pc |-> "idle", resp |-> NullManifest,
              via |-> "none"]

\* main.js module state at page load; phase is the position of initialize().
NewPage == [phase |-> "loading", serviceWorkerReady |-> FALSE,
            updateAvailable |-> FALSE, isInitialized |-> FALSE]

\* No page has been asked for through the pagination.
NoPage == -1

\* The pagination and badge state main.js starts with: no results, page 1,
\* no remembered query, an empty search box and no selected tag.
NoUi ==
  [ input |-> <<>>, selectedTags |-> <<>>, allResults |-> <<>>,
    currentPage |-> 1, currentQuery |-> <<>>, requested |-> NoPage ]

\* No search made yet; a search outcome keeps the arguments of the call.
NoSearch == [status |-> "none", results |-> <<>>, query |-> <<>>, tags |-> <<>>,
             limit |-> 0]

Init ==
  /\ live = 1
  /\ isOnline = TRUE
  /\ cache = [u \in ASSETS_TO_CACHE |-> 0]
  /\ sw = NoWorker
  /\ controller = FALSE
  /\ checks = [p \in CheckIds |-> IdleCheck]
  /\ servePut = 0
  /\ clientInbox = <<>>
  /\ page = NewPage
  /\ engine = NewEngine
  /\ lastSearch = NoSearch
  /\ stores = [n \in OtherCacheNames |-> Absent]
  /\ old = NoOld
  /\ request = NoRequest
  /\ entries = {}
  /\ ui = NoUi

\* The sync script regenerates the dataset and the site is redeployed.
Publish ==
  /\ live < MaxVersion
  /\ live' = live + 1
  /\ UNCHANGED << isOnline, cache, sw, controller, checks, servePut,
                  clientInbox, page, engine, lastSearch,
                  stores, old, request, entries, ui >>

\* ----------------------------------------------------- install / activate
\* navigator.serviceWorker.register on a first visit starts the worker's
\* install handler: one cache.add per entry of ASSETS_TO_CACHE, all started
\* together.
StartInstall(w) ==
  IF w.phase = "unregistered"
  THEN [NoWorker EXCEPT !.phase = "installing", !.pending = ASSETS_TO_CACHE]
  ELSE w

\* Variant: cache.add without the catch; a failed add rejects the promise
\* given to waitUntil and the installation is abandoned.
InstallAddAborting(url) ==
  /\ sw.phase = "installing"
  /\ url \in sw.pending
  /\ \E o \in FetchOutcomes :
       /\ cache' = IF o = "ok" THEN [cache EXCEPT ![url] = live] ELSE cache
       /\ sw' = IF o = "ok" THEN [sw EXCEPT !.pending = @ \ {url}]
                ELSE [sw EXCEPT !.phase = "redundant", !.pending = {}]
  /\ UNCHANGED << live, isOnline, controller, checks, servePut, clientInbox,
                  page, engine, lastSearch, stores, old, request, entries, ui >>

\* One cache.add(url) of the install handler settles: the response fetched
\* from the network is stored, or the add rejects (non-OK or network error),
\* which the handler's catch only logs.
InstallAdd(url) ==
  /\ sw.phase = "installing"
  /\ url \in sw.pending
  /\ \E o \in FetchOutcomes :
       cache' = IF o = "ok" THEN [cache EXCEPT ![url] = live] ELSE cache
  /\ sw' = [sw EXCEPT !.pending = @ \ {url}]
  /\ UNCHANGED << live, isOnline, controller, checks, servePut, clientInbox,
                  page, engine, lastSearch, stores, old, request, entries, ui >>

\* The chunk pages named by a manifest (chunk.file, one page per chunk).
chunkFiles(metadata) == Len(metadata.chunks)

\* Promise.allSettled resolved: the handler fetches metadata.json from the
\* network and reads it as JSON; with a manifest one cache.add per chunk
\* page is started, a failed fetch or a body that does not parse is caught
\* and only logged.
InstallPrecache ==
  /\ sw.phase = "installing"
  /\ sw.pending = {}
  /\ \E o \in FetchOutcomes :
       sw' = [sw EXCEPT !.phase = "precaching",
                        !.chunks = IF o = "ok" THEN chunkFiles(ServerManifest(live))
                                   ELSE 0]
  /\ UNCHANGED << live, isOnline, cache, controller, checks, servePut,
                  clientInbox, page, engine, lastSearch, stores, old, request,
                  entries, ui >>

\* One cache.add of a chunk page settles; a failure is caught and logged.
\* (Chunk pages are entries of CACHE_NAME outside the dataset keys; which of
\* them are stored is not recorded.)
InstallChunkAdd ==
  /\ sw.phase = "precaching"
  /\ sw.chunks > 0
  /\ \E o \in FetchOutcomes : sw' = [sw EXCEPT !.chunks = @ - 1]
  /\ UNCHANGED << live, isOnline, cache, controller, checks, servePut,
                  clientInbox, page, engine, lastSearch, stores, old, request,
                  entries, ui >>

\* Variant: the handler's promise chain is not handed to event.waitUntil, so
\* the install event counts as handled while adds are still pending.
installSettledAtOnce(w) == w.phase \in { "installing", "precaching" }

\* The promise given to event.waitUntil by the install handler has settled:
\* both Promise.allSettled groups are through.
installSettled(w) == w.phase = "precaching" /\ w.chunks = 0

\* Last then of the install handler: 'Install complete', self.skipWaiting();
\* the installed worker goes on to activation without waiting.
InstallComplete ==
  /\ installSettled(sw)
  /\ sw' = [sw EXCEPT !.phase = "activating"]
  /\ UNCHANGED << live, isOnline, cache, controller, checks, servePut,
                  clientInbox, page, engine, lastSearch, stores, old, request,
                  entries, ui >>

\* Names caches.keys() resolves to: CACHE_NAME (opened by the install
\* handler) and the other caches that exist.
ExistingCaches == { CACHE_NAME } \cup { n \in OtherCacheNames : stores[n] # Absent }

\* Variant: the filter without its negation (the kept caches are deleted).
ShouldDeleteKept(name) == name \in CACHES_TO_KEEP

\* Variant: every listed cache is deleted, the worker's own included.
ShouldDeleteAll(name) == TRUE

\* .filter(name => !CACHES_TO_KEEP.includes(name))
ShouldDelete(name) == name \notin CACHES_TO_KEEP

\* The previous instance stops when the new one becomes the active worker:
\* a request it was still handling is cut off where it stands.
Terminated(o) == IF o.pc \in { "none", "done" } THEN o ELSE [o EXCEPT !.pc = "terminated"]

\* Activate handler, caches.keys().then(...): the caches to delete are
\* chosen and one caches.delete per name is started.
ActivateKeys ==
  /\ sw.phase = "activating"
  /\ sw' = [sw EXCEPT !.phase = "deleting",
                      !.toDelete = { n \in ExistingCaches : ShouldDelete(n) }]
  /\ old' = Terminated(old)
  /\ UNCHANGED << live, isOnline, cache, controller, checks, servePut,
                  clientInbox, page, engine, lastSearch, stores, request,
                  entries, ui >>

\* One caches.delete(name) resolves: the cache and all its entries are gone.
ActivateDelete(name) ==
  /\ sw.phase = "deleting"
  /\ name \in sw.toDelete
  /\ sw' = [sw EXCEPT !.toDelete = @ \ {name}, !.deleted = @ \cup {name}]
  /\ IF name = CACHE_NAME
     THEN /\ cache' = [u \in ASSETS_TO_CACHE |-> 0]
          /\ entries' = {}
          /\ stores' = stores
     ELSE /\ stores' = [stores EXCEPT ![name] = Absent]
          /\ UNCHANGED << cache, entries >>
  /\ UNCHANGED << live, isOnline, controller, checks, servePut, clientInbox,
                  page, engine, lastSearch, old, request, ui >>

\* Promise.all of the deletions resolved, then self.clients.claim(): the
\* worker is active and controls the open page.
Activate ==
  /\ sw.phase = "deleting"
  /\ sw.toDelete = {}
  /\ sw' = [sw EXCEPT !.phase = "active"]
  /\ controller' = TRUE
  /\ UNCHANGED << live, isOnline, cache, checks, servePut, clientInbox,
                  page, engine, lastSearch, stores, old, request, entries, ui >>

\* ---------------------------------------------------------- checkForUpdates
\* notify(message): port.postMessage when a port came with the request,
\* console.log otherwise.
notify(port, message, inbox) ==
  IF port # NoPort THEN Append(inbox, message) ELSE inbox

\* The check ends after reporting `type` (version is the descriptor carried).
Reported(c, type, version) ==
  [c EXCEPT !.pc = "done", !.emb = 0, !.reports = Append(@, type),
            !.newVersion = IF type = "UPDATE_AVAILABLE" THEN version ELSE 0]

\* The check ends without any notify call.
Silent(c) == [c EXCEPT !.pc = "done", !.newVersion = 0, !.emb = 0]

FreeChecks == { p \in CheckIds : checks[p].pc \in { "idle", "done" } }

\* The lowest free identity (the choice among free ones is immaterial).
NextCheck == CHOOSE p \in FreeChecks : \A q \in FreeChecks : p <= q

\* 'message' handler of the worker: CHECK_FOR_UPDATES starts
\* checkForUpdates(event.ports?.[0] || null) up to its first await.
OnCheckForUpdates(cs, port) ==
  [cs EXCEPT ![NextCheck] = [IdleCheck EXCEPT !.pc = "fetchVersion", !.port = port]]

\* await fetch(version.json?t=...) and response.json().
FetchVersion(p) ==
  /\ checks[p].pc = "fetchVersion"
  /\ \E o \in FetchOutcomes :
       /\ checks' = [checks EXCEPT ![p] =
            IF o = "ok"
            THEN [@ EXCEPT !.pc = "readCache", !.newVersion = VersionJson(live).checksum]
            ELSE Reported(@, "UPDATE_CHECK_FAILED", 0)]
       /\ clientInbox' =
            IF o = "ok" THEN clientInbox
            ELSE notify(checks[p].port, "UPDATE_CHECK_FAILED", clientInbox)
  /\ UNCHANGED << live, isOnline, cache, sw, controller, servePut, page,
                  engine, lastSearch,
                  stores, old, request, entries, ui >>

\* Variant: the two parsed descriptors compared as objects (never equal).
NewVersionDetectedByIdentity(cachedVersion, newVersion) == TRUE

\* The comparison of line 435: no cached descriptor, or another checksum.
NewVersionDetected(cachedVersion, newVersion) ==
  cachedVersion = 0 \/ newVersion # VersionJson(cachedVersion).checksum

\* await cache.match(version.json) and the comparison; equal checksums
\* report UP_TO_DATE.
ReadCachedVersion(p) ==
  /\ checks[p].pc = "readCache"
  /\ LET cachedVersion == cache[VersionUrl]
     IN  IF NewVersionDetected(cachedVersion, checks[p].newVersion)
         THEN /\ checks' = [checks EXCEPT ![p].pc = "fetchEmbeddings"]
              /\ clientInbox' = clientInbox
         ELSE /\ checks' = [checks EXCEPT ![p] = Reported(@, "UP_TO_DATE", cachedVersion)]
              /\ clientInbox' = notify(checks[p].port, "UP_TO_DATE", clientInbox)
  /\ UNCHANGED << live, isOnline, cache, sw, controller, servePut, page,
                  engine, lastSearch,
                  stores, old, request, entries, ui >>

\* await fetch(embeddings.json): a non-OK response skips the if-block (no
\* notify at all), a rejection reaches the inner catch.
FetchEmbeddings(p) ==
  /\ checks[p].pc = "fetchEmbeddings"
  /\ \E o \in FetchOutcomes :
       /\ checks' = [checks EXCEPT ![p] =
            CASE o = "ok" -> [@ EXCEPT !.pc = "putEmbeddings", !.emb = live]
              [] o = "http" -> Silent(@)
              [] OTHER -> Reported(@, "UPDATE_FAILED", 0)]
       /\ clientInbox' =
            IF o = "throw" THEN notify(checks[p].port, "UPDATE_FAILED", clientInbox)
            ELSE clientInbox
  /\ UNCHANGED << live, isOnline, cache, sw, controller, servePut, page,
                  engine, lastSearch,
                  stores, old, request, entries, ui >>

\* Variant: a rejected cache.put(embeddings.json) is swallowed and the check
\* goes on to write the descriptor.
PutEmbeddingsIgnoringFailure(p) ==
  /\ checks[p].pc = "putEmbeddings"
  /\ \E ok \in BOOLEAN :
       cache' = IF ok THEN [cache EXCEPT ![EmbeddingsUrl] = checks[p].emb] ELSE cache
  /\ checks' = [checks EXCEPT ![p].pc = "putVersion", ![p].emb = 0]
  /\ UNCHANGED << live, isOnline, sw, controller, servePut, clientInbox, page,
                  engine, lastSearch,
                  stores, old, request, entries, ui >>

\* await cache.put(embeddings.json, embeddingsResponse): the entry is
\* committed once the whole body has been read, or the put rejects (body
\* stream broken, quota) and nothing is stored.
PutEmbeddings(p) ==
  /\ checks[p].pc = "putEmbeddings"
  /\ \E ok \in BOOLEAN :
       IF ok
       THEN /\ cache' = [cache EXCEPT ![EmbeddingsUrl] = checks[p].emb]
            /\ checks' = [checks EXCEPT ![p].pc = "putVersion", ![p].emb = 0]
            /\ clientInbox' = clientInbox
       ELSE /\ cache' = cache
            /\ checks' = [checks EXCEPT ![p] = Reported(@, "UPDATE_FAILED", 0)]
            /\ clientInbox' = notify(checks[p].port, "UPDATE_FAILED", clientInbox)
  /\ UNCHANGED << live, isOnline, sw, controller, servePut, page, engine,
                  lastSearch,
                  stores, old, request, entries, ui >>

PutVersionReportingOnly(p) ==
  /\ checks[p].pc = "putVersion"
  /\ cache' = cache
  /\ checks' = [checks EXCEPT ![p] =
       Reported(@, "UPDATE_AVAILABLE", checks[p].newVersion)]
  /\ clientInbox' = notify(checks[p].port, "UPDATE_AVAILABLE", clientInbox)
  /\ UNCHANGED << live, isOnline, sw, controller, servePut, page, engine,
                  lastSearch,
                  stores, old, request, entries, ui >>

\* await cache.put(version.json, new Response(JSON.stringify(newVersion)))
\* and notify UPDATE_AVAILABLE.
PutVersion(p) ==
  /\ checks[p].pc = "putVersion"
  /\ \E ok \in BOOLEAN :
       IF ok
       THEN /\ cache' = [cache EXCEPT ![VersionUrl] = checks[p].newVersion]
            /\ checks' = [checks EXCEPT ![p] =
                 Reported(@, "UPDATE_AVAILABLE", checks[p].newVersion)]
            /\ clientInbox' = notify(checks[p].port, "UPDATE_AVAILABLE", clientInbox)
       ELSE /\ cache' = cache
            /\ checks' = [checks EXCEPT ![p] = Reported(@, "UPDATE_FAILED", 0)]
            /\ clientInbox' = notify(checks[p].port, "UPDATE_FAILED", clientInbox)
  /\ UNCHANGED << live, isOnline, sw, controller, servePut, page, engine,
                  lastSearch,
                  stores, old, request, entries, ui >>

\* -------------------------------------------------------------------- page
\* checkForUpdatesIfOnline: posts CHECK_FOR_UPDATES, without a port, to the
\* controlling worker; nothing happens offline, before registration or
\* without a controller.
WillPostCheck(online, swReady) == online /\ swReady /\ controller

checkForUpdatesIfOnline(online, swReady) ==
  IF WillPostCheck(online, swReady) THEN OnCheckForUpdates(checks, NoPort) ELSE checks

\* A posted check needs a free identity (bound on concurrent checks).
CanPost(online, swReady) == WillPostCheck(online, swReady) => FreeChecks # {}

\* DOMContentLoaded -> initialize(): registerServiceWorker() is awaited; on
\* a first visit the registration starts the worker's installation.
DOMContentLoaded ==
  /\ page.phase = "loading"
  /\ page' = [page EXCEPT !.phase = "registering"]
  /\ sw' = StartInstall(sw)
  /\ UNCHANGED << live, isOnline, cache, controller, checks, servePut,
                  clientInbox, engine, lastSearch,
                  stores, old, request, entries, ui >>

\* Variant: initialize without the early return for a ready engine.
initializeStartNoReadyGuard(e) ==
  IF e.isLoading THEN e
  ELSE [e EXCEPT !.isLoading = TRUE, !.pc = "fetching"]

\* Variant: initialize without the "Already initializing" guard.
initializeStartWhileLoading(e) ==
  IF e.isReady THEN e
  ELSE [e EXCEPT !.isLoading = TRUE, !.pc = "fetching"]

\* SearchEngine.initialize up to its first await: early return when ready,
\* "Already initializing" when loading, else isLoading = true and the
\* metadata.json request is issued.
initializeStart(e) ==
  IF e.isReady \/ e.isLoading THEN e
  ELSE [e EXCEPT !.isLoading = TRUE, !.pc = "fetching"]

\* registerServiceWorker settles (registered: serviceWorkerReady = true, a
\* first update check and the 5-minute timer; rejected or development mode:
\* nothing), then main.js initialize() calls searchEngine.initialize().
RegisterSettled ==
  /\ page.phase = "registering"
  /\ \E registered \in BOOLEAN :
       /\ CanPost(isOnline, registered)
       /\ page' = [page EXCEPT !.phase = "initializing",
                               !.serviceWorkerReady = registered]
       /\ checks' = checkForUpdatesIfOnline(isOnline, registered)
  /\ engine' = initializeStart(engine)
  /\ UNCHANGED << live, isOnline, cache, sw, controller, servePut,
                  clientInbox, lastSearch,
                  stores, old, request, entries, ui >>

\* setInterval callback (set up once registered): if (isOnline)
\* checkForUpdatesIfOnline().
TimerTick ==
  /\ page.serviceWorkerReady
  /\ isOnline
  /\ WillPostCheck(isOnline, page.serviceWorkerReady)
  /\ CanPost(isOnline, page.serviceWorkerReady)
  /\ checks' = checkForUpdatesIfOnline(isOnline, page.serviceWorkerReady)
  /\ UNCHANGED << live, isOnline, cache, sw, controller, servePut,
                  clientInbox, page, engine, lastSearch,
                  stores, old, request, entries, ui >>

\* window 'online' listener: isOnline = true, checkForUpdatesIfOnline().
Online ==
  /\ ~isOnline
  /\ page.phase # "loading"
  /\ CanPost(TRUE, page.serviceWorkerReady)
  /\ isOnline' = TRUE
  /\ checks' = checkForUpdatesIfOnline(TRUE, page.serviceWorkerReady)
  /\ UNCHANGED << live, cache, sw, controller, servePut, clientInbox, page,
                  engine, lastSearch,
                  stores, old, request, entries, ui >>

\* window 'offline' listener: isOnline = false.
Offline ==
  /\ isOnline
  /\ isOnline' = FALSE
  /\ UNCHANGED << live, cache, sw, controller, checks, servePut,
                  clientInbox, page, engine, lastSearch,
                  stores, old, request, entries, ui >>

\* Variant: UP_TO_DATE withdraws the notification.
OnWorkerMessageClearing(pg, message) ==
  IF message = "UPDATE_AVAILABLE" THEN [pg EXCEPT !.updateAvailable = TRUE]
  ELSE IF message = "UP_TO_DATE" THEN [pg EXCEPT !.updateAvailable = FALSE]
  ELSE pg

\* navigator.serviceWorker 'message' listener: UPDATE_AVAILABLE sets
\* updateAvailable and shows the refresh button; other types only log.
OnWorkerMessage(pg, message) ==
  IF message = "UPDATE_AVAILABLE" THEN [pg EXCEPT !.updateAvailable = TRUE] ELSE pg

\* A message posted to the page is delivered to the listener.  No code path
\* posts one (the page sends no port, the worker posts to no client), so the
\* action is never enabled and is no disjunct of Next.
DeliverMessage ==
  /\ clientInbox # <<>>
  /\ page' = OnWorkerMessage(page, Head(clientInbox))
  /\ clientInbox' = Tail(clientInbox)
  /\ UNCHANGED << live, isOnline, cache, sw, controller, checks, servePut,
                  engine, lastSearch,
                  stores, old, request, entries, ui >>

\* ------------------------------------------------- fetch handler (serving)
\* The worker intercepts the page's requests once it is active and controls
\* the page.
Intercepted == controller /\ sw.phase = "active"

\* main.js initialize() after its await of searchEngine.initialize():
\* isInitialized = true, or the catch that shows the error.  Only the call
\* made by initialize() itself is awaited there.
initializeSettled(pg, ok) ==
  IF pg.phase # "initializing" THEN pg
  ELSE IF ok THEN [pg EXCEPT !.phase = "ready", !.isInitialized = TRUE]
  ELSE [pg EXCEPT !.phase = "failed"]

\* Variant: network-first, the store being used only when offline.
ServeFromCacheWhenOffline(url) == cache[url] # 0 /\ ~isOnline

\* cache.match(event.request) finds an entry.
ServeFromCache(url) == cache[url] # 0

\* The metadata.json request of SearchEngine.initialize is answered.
\* Cache-first when intercepted: a hit is returned without touching the
\* network; on a miss the network response is returned, a 200 one being also
\* handed to an un-awaited cache.put; a rejection falls back to cache.match,
\* which is undefined after a miss, so the page's fetch rejects.  A non-200
\* response carries a body that is no manifest.
MetadataResponse ==
  /\ engine.pc = "fetching"
  /\ IF Intercepted /\ ServeFromCache(MetadataUrl)
     THEN /\ engine' = [engine EXCEPT !.pc = "parsing", !.via = "cache",
                           !.resp = ServerManifest(cache[MetadataUrl])]
          /\ servePut' = servePut
          /\ UNCHANGED page
     ELSE \E o \in FetchOutcomes :
            /\ servePut' = IF Intercepted /\ o = "ok" THEN live ELSE servePut
            /\ IF o = "throw"
               THEN /\ engine' = [engine EXCEPT !.pc = "idle", !.isLoading = FALSE]
                    /\ page' = initializeSettled(page, FALSE)
               ELSE /\ engine' = [engine EXCEPT !.pc = "parsing", !.via = "network",
                          !.resp = IF o = "ok" THEN ServerManifest(live) ELSE BadBody]
                    /\ UNCHANGED page
  /\ UNCHANGED << live, isOnline, cache, sw, controller, checks, clientInbox,
                  lastSearch,
                  stores, old, request, entries, ui >>

\* The fetch handler's un-awaited cache.put(event.request, responseToCache)
\* completes or rejects.
ServePutSettled ==
  /\ servePut # 0
  /\ \E ok \in BOOLEAN :
       cache' = IF ok THEN [cache EXCEPT ![MetadataUrl] = servePut] ELSE cache
  /\ servePut' = 0
  /\ UNCHANGED << live, isOnline, sw, controller, checks, clientInbox, page,
                  engine, lastSearch,
                  stores, old, request, entries, ui >>

\* ------------------------------------------------------------ SearchEngine
\* Variant: a body that does not parse leaves the load marked as in progress.
MetadataParsedNoReset ==
  /\ engine.pc = "parsing"
  /\ IF engine.resp # BadBody
     THEN /\ engine' = [engine EXCEPT !.pc = "idle", !.resp = NullManifest, !.via = "none",
                           !.metadata = engine.resp,
                           !.fuse = TRUE, !.isReady = TRUE, !.isLoading = FALSE]
          /\ page' = initializeSettled(page, TRUE)
     ELSE /\ engine' = [engine EXCEPT !.pc = "idle", !.resp = NullManifest, !.via = "none"]
          /\ page' = initializeSettled(page, FALSE)
  /\ UNCHANGED << live, isOnline, cache, sw, controller, checks, servePut,
                  clientInbox, lastSearch,
                  stores, old, request, entries, ui >>

\* Variant: isReady is set while the load is still marked as in progress.
MetadataParsedStillLoading ==
  /\ engine.pc = "parsing"
  /\ IF engine.resp # BadBody
     THEN /\ engine' = [engine EXCEPT !.pc = "idle", !.resp = NullManifest, !.via = "none",
                           !.metadata = engine.resp,
                           !.fuse = TRUE, !.isReady = TRUE]
          /\ page' = initializeSettled(page, TRUE)
     ELSE /\ engine' = [engine EXCEPT !.pc = "idle", !.resp = NullManifest, !.via = "none",
                           !.isLoading = FALSE]
          /\ page' = initializeSettled(page, FALSE)
  /\ UNCHANGED << live, isOnline, cache, sw, controller, checks, servePut,
                  clientInbox, lastSearch,
                  stores, old, request, entries, ui >>

\* this.metadata = await metadataResponse.json(); new Fuse(...); isReady =
\* true; a body that is no JSON throws: isLoading = false and the error is
\* rethrown to main.js initialize(), which sets isInitialized on success.
MetadataParsed ==
  /\ engine.pc = "parsing"
  /\ IF engine.resp # BadBody
     THEN /\ engine' = [engine EXCEPT !.pc = "idle", !.resp = NullManifest, !.via = "none",
                           !.metadata = engine.resp,
                           !.fuse = TRUE, !.isReady = TRUE, !.isLoading = FALSE]
          /\ page' = initializeSettled(page, TRUE)
     ELSE /\ engine' = [engine EXCEPT !.pc = "idle", !.resp = NullManifest, !.via = "none",
                           !.isLoading = FALSE]
          /\ page' = initializeSettled(page, FALSE)
  /\ UNCHANGED << live, isOnline, cache, sw, controller, checks, servePut,
                  clientInbox, lastSearch,
                  stores, old, request, entries, ui >>

\* Another call of SearchEngine.initialize() by a user of the class, once
\* main.js has made its own: ignored when ready, rejected with "Already
\* initializing" when loading, a new load after a failure.
Initialize ==
  /\ page.phase \in { "initializing", "ready", "failed" }
  /\ engine' = initializeStart(engine)
  /\ UNCHANGED << live, isOnline, cache, sw, controller, checks, servePut,
                  clientInbox, page, lastSearch,
                  stores, old, request, entries, ui >>

\* Variant: a search during loading passes the guard.
NotReadyUnlessLoading(e) == ~e.isReady /\ ~e.isLoading

\* The guard of SearchEngine.search (lines 68-72).
NotReady(e) == ~e.isReady

\* SearchEngine.search(query, tags, limit): rejects at once when not ready,
\* else returns the results; nothing is queued and the engine is unchanged.
search(e, query, tags, limit) ==
  IF NotReady(e)
  THEN [status |-> "notReady", results |-> <<>>, query |-> query, tags |-> tags,
        limit |-> limit]
  ELSE IF filterThrows(e.metadata.chunks, tags)
  THEN [status |-> "error", results |-> <<>>, query |-> query, tags |-> tags,
        limit |-> limit]
  ELSE [status |-> "ok", results |-> SearchResults(e.metadata, query, tags, limit),
        query |-> query, tags |-> tags, limit |-> limit]

\* Variant: the tag filter is stored back into the manifest
\* (this.metadata.chunks = results).
afterSearchKeepingFilter(e, tags) ==
  IF ~NotReady(e) /\ Len(tags) > 0
  THEN [e EXCEPT !.metadata.chunks = FilterByTags(@, tags)]
  ELSE e

\* The engine after a call of search: no field of `this` is assigned, the
\* filter and the Fuse index of the call are locals.
afterSearch(e, tags) == e

\* One call search(query, tags, limit) by a caller of the exported class (the
\* outcome of its previous call has been taken).
SearchCall(query, tags, limit) ==
  /\ lastSearch = NoSearch
  /\ lastSearch' = search(engine, query, tags, limit)
  /\ engine' = afterSearch(engine, tags)
  /\ UNCHANGED << live, isOnline, cache, sw, controller, checks, servePut,
                  clientInbox, page, stores, old, request, entries, ui >>

Search ==
  \E query \in Queries, tags \in TagFilters, limit \in Limits :
    SearchCall(query, tags, limit)

\* The caller's continuation of `await searchEngine.search(...)`: the results
\* are rendered, or the error is shown.
SearchSettled ==
  /\ lastSearch # NoSearch
  /\ lastSearch' = NoSearch
  /\ UNCHANGED << live, isOnline, cache, sw, controller, checks, servePut,
                  clientInbox, page, engine, stores, old, request, entries, ui >>

\* window.location.reload() or a new visit: a fresh page and SearchEngine;
\* the worker, its cache and its running checks live on, and an active
\* worker controls the new page from its first request.
Reload ==
  /\ page.phase # "loading"
  /\ page' = NewPage
  /\ engine' = NewEngine
  /\ lastSearch' = NoSearch
  /\ controller' = (sw.phase = "active")
  /\ ui' = NoUi
  /\ UNCHANGED << live, isOnline, cache, sw, checks, servePut, clientInbox,
                  stores, old, request, entries >>

Next ==
  \/ Publish
  \/ \E url \in ASSETS_TO_CACHE : InstallAdd(url)
  \/ InstallPrecache
  \/ InstallChunkAdd
  \/ InstallComplete
  \/ ActivateKeys
  \/ Activate
  \/ \E p \in CheckIds : FetchVersion(p)
  \/ \E p \in CheckIds : ReadCachedVersion(p)
  \/ \E p \in CheckIds : FetchEmbeddings(p)
  \/ \E p \in CheckIds : PutEmbeddings(p)
  \/ \E p \in CheckIds : PutVersion(p)
  \/ DOMContentLoaded
  \/ RegisterSettled
  \/ TimerTick
  \/ Online
  \/ Offline
  \/ MetadataResponse
  \/ ServePutSettled
  \/ MetadataParsed
  \/ Initialize
  \/ Reload

Spec == Init /\ [][Next]_vars

\* ------------------------------------------------- a session with messages
\* The message types the page's listener tells apart.
MessageTypes == { "UPDATE_AVAILABLE", "UP_TO_DATE", "UPDATE_FAILED" }

\* A 'message' event of an active worker reaches the listener of the page.
MessageEvent(type) ==
  /\ sw.phase = "active"
  /\ page' = OnWorkerMessage(page, type)
  /\ UNCHANGED << live, isOnline, cache, sw, controller, checks, servePut,
                  clientInbox, engine, lastSearch,
                  stores, old, request, entries, ui >>

\* One dataset version, the page with its listener receiving messages of
\* every type, its checks, connectivity changes, searches and reloads.
NextSession ==
  \/ \E url \in ASSETS_TO_CACHE : InstallAdd(url)
  \/ InstallPrecache
  \/ InstallChunkAdd
  \/ InstallComplete
  \/ ActivateKeys
  \/ Activate
  \/ \E p \in CheckIds : FetchVersion(p)
  \/ \E p \in CheckIds : ReadCachedVersion(p)
  \/ \E p \in CheckIds : FetchEmbeddings(p)
  \/ \E p \in CheckIds : PutEmbeddings(p)
  \/ \E p \in CheckIds : PutVersion(p)
  \/ DOMContentLoaded
  \/ RegisterSettled
  \/ TimerTick
  \/ Online
  \/ Offline
  \/ \E type \in MessageTypes : MessageEvent(type)
  \/ MetadataResponse
  \/ ServePutSettled
  \/ MetadataParsed
  \/ SearchCall(tr, <<>>, 0)
  \/ SearchSettled
  \/ Reload

SpecSession == Init /\ [][NextSession]_vars

\* ------------------------------------------------ SearchEngine on its own
\* The engine with initialize() in flight, its response being any manifest
\* of the bounded family or a body that does not parse; searches may be
\* issued before and after the load settles.
InitSearch ==
  /\ live = 1
  /\ isOnline = TRUE
  /\ cache = [u \in ASSETS_TO_CACHE |-> 0]
  /\ sw = NoWorker
  /\ controller = FALSE
  /\ checks = [p \in CheckIds |-> IdleCheck]
  /\ servePut = 0
  /\ clientInbox = <<>>
  /\ stores = [n \in OtherCacheNames |-> Absent]
  /\ old = NoOld
  /\ request = NoRequest
  /\ entries = {}
  /\ ui = NoUi
  /\ page = [NewPage EXCEPT !.phase = "initializing"]
  /\ \E body \in Manifests \cup { BadBody } :
       engine = [NewEngine EXCEPT !.isLoading = TRUE, !.pc = "parsing",
                                    !.via = "network", !.resp = body]
  /\ lastSearch = NoSearch

NextSearch == MetadataParsed \/ Search \/ SearchSettled

SpecSearch == InitSearch /\ [][NextSearch]_vars

\* ---------------------------------------------------- repeated searches
\* Arguments of the calls made around a repeated search.
RepeatQueries == { <<>>, ca }
RepeatFilters == { <<>>, <<an>>, <<ca>> }

\* performSearch keeps a non-empty result list with the arguments of its
\* call (allResults = results; currentQuery = query); here the first such
\* list stays kept while further searches run.
KeepOutcome ==
  /\ lastSearch.status = "ok"
  /\ Len(lastSearch.results) > 0
  /\ lastSearch.limit = 0
  /\ ui.allResults = <<>>
  /\ ui' = [ui EXCEPT !.allResults = lastSearch.results,
                       !.currentQuery = lastSearch.query,
                       !.selectedTags = lastSearch.tags]
  /\ lastSearch' = NoSearch
  /\ UNCHANGED << live, isOnline, cache, sw, controller, checks, servePut,
                  clientInbox, page, engine, stores, old, request, entries >>

NextRepeat ==
  \/ MetadataParsed
  \/ \E query \in RepeatQueries, tags \in RepeatFilters, limit \in Limits :
       SearchCall(query, tags, limit)
  \/ SearchSettled
  \/ KeepOutcome

SpecRepeat == InitSearch /\ [][NextRepeat]_vars

\* -------------------------------------------------------------- pagination
resultsPerPage == 25

\* Math.min, Math.max.
Min(a, b) == IF a < b THEN a ELSE b
Max(a, b) == IF a > b THEN a ELSE b

\* Math.ceil(a / b) for a >= 0, b > 0.
Ceil(a, b) == (a \div b) + (IF a % b = 0 THEN 0 ELSE 1)

\* Array.prototype.slice(start, end): a negative index counts from the end,
\* indexes beyond the array are cut, start >= end gives [].
SliceRange(arr, start, end) ==
  LET from == IF start < 0 THEN Max(Len(arr) + start, 0) ELSE Min(start, Len(arr))
      to == IF end < 0 THEN Max(Len(arr) + end, 0) ELSE Min(end, Len(arr))
  IN  IF from < to THEN SubSeq(arr, from + 1, to) ELSE <<>>

\* renderResults: const totalPages, startIdx, endIdx, pageResults.
totalPages(u) == Ceil(Len(u.allResults), resultsPerPage)

\* Variant: the page number is not reduced by one.
startIdxOfNextPage(u) == u.currentPage * resultsPerPage

startIdx(u) == (u.currentPage - 1) * resultsPerPage

endIdx(u) == Min(startIdx(u) + resultsPerPage, Len(u.allResults))

pageResults(u) == SliceRange(u.allResults, startIdx(u), endIdx(u))

\* The '...' entry of generatePageNumbers.
Ellipsis == 0

maxVisible == 7

\* generatePageNumbers(current, total): the page buttons, in order.
generatePageNumbers(current, total) ==
  IF total <= maxVisible
  THEN [i \in 1..total |-> i]
  ELSE LET start == Max(2, current - 2)
           end == Min(total - 1, current + 2)
       IN  <<1>> \o (IF start > 2 THEN <<Ellipsis>> ELSE <<>>)
               \o [i \in 1..(end - start + 1) |-> start + i - 1]
               \o (IF end < total - 1 THEN <<Ellipsis>> ELSE <<>>)
               \o <<total>>

\* The pagination is rendered (and its listeners added) for several pages.
PaginationShown(u) == Len(u.allResults) > 0 /\ totalPages(u) > 1

\* Pages that have a .page-number button.
PageNumberButtons(u) ==
  LET pages == generatePageNumbers(u.currentPage, totalPages(u))
  IN  { pages[i] : i \in 1..Len(pages) } \ { Ellipsis }

\* Result lists of a search, kept as the ranks 1..n of their results: the
\* lengths around each multiple of the page size.
ResultCounts ==
  { n \in 0..MaxResults :
      n % resultsPerPage \in { 0, 1, resultsPerPage - 1 } \/ n = MaxResults }

\* Variant: the page of the previous result list is kept.
afterResultsKeepingPage(u, n) ==
  IF n = 0
  THEN [u EXCEPT !.allResults = <<>>, !.currentQuery = <<>>, !.requested = NoPage]
  ELSE [u EXCEPT !.allResults = [i \in 1..n |-> i],
                 !.currentQuery = tr, !.requested = NoPage]

\* performSearch once search has returned n results: none clears the list
\* (and leaves currentPage), else the list is stored and page 1 is shown.
afterResults(u, n) ==
  IF n = 0
  THEN [u EXCEPT !.allResults = <<>>, !.currentQuery = <<>>, !.requested = NoPage]
  ELSE [u EXCEPT !.allResults = [i \in 1..n |-> i], !.currentPage = 1,
                 !.currentQuery = tr, !.requested = NoPage]

ShowResults(n) ==
  /\ page.isInitialized
  /\ ui' = afterResults(ui, n)
  /\ UNCHANGED << live, isOnline, cache, sw, controller, checks, servePut,
                  clientInbox, page, engine, lastSearch, stores, old, request,
                  entries >>

\* A click on Previous; requested notes the page asked for.  The button is
\* disabled on page 1 (no event), and its handler tests currentPage > 1.
ClickPrevious ==
  /\ PaginationShown(ui)
  /\ ui' = IF ui.currentPage = 1 \/ ~(ui.currentPage > 1)
           THEN [ui EXCEPT !.requested = ui.currentPage - 1]
           ELSE [ui EXCEPT !.requested = ui.currentPage - 1, !.currentPage = @ - 1]
  /\ UNCHANGED << live, isOnline, cache, sw, controller, checks, servePut,
                  clientInbox, page, engine, lastSearch, stores, old, request,
                  entries >>

\* Variant: Next is never disabled and its handler has no test.
ClickNextUnguarded ==
  /\ PaginationShown(ui)
  /\ ui' = [ui EXCEPT !.requested = ui.currentPage + 1, !.currentPage = @ + 1]
  /\ UNCHANGED << live, isOnline, cache, sw, controller, checks, servePut,
                  clientInbox, page, engine, lastSearch, stores, old, request,
                  entries >>

\* A click on Next: disabled on the last page, and its handler tests
\* currentPage < totalPages.
ClickNext ==
  /\ PaginationShown(ui)
  /\ ui' = IF ui.currentPage = totalPages(ui) \/ ~(ui.currentPage < totalPages(ui))
           THEN [ui EXCEPT !.requested = ui.currentPage + 1]
           ELSE [ui EXCEPT !.requested = ui.currentPage + 1, !.currentPage = @ + 1]
  /\ UNCHANGED << live, isOnline, cache, sw, controller, checks, servePut,
                  clientInbox, page, engine, lastSearch, stores, old, request,
                  entries >>

\* A click on a page-number button (the active one is disabled):
\* currentPage = parseInt(e.target.dataset.page).
ClickPageNumber(p) ==
  /\ PaginationShown(ui)
  /\ p \in PageNumberButtons(ui)
  /\ ui' = IF p # ui.currentPage
           THEN [ui EXCEPT !.requested = p, !.currentPage = p]
           ELSE [ui EXCEPT !.requested = p]
  /\ UNCHANGED << live, isOnline, cache, sw, controller, checks, servePut,
                  clientInbox, page, engine, lastSearch, stores, old, request,
                  entries >>

\* The initialized page with its ready engine, before the first search.
InitPages ==
  /\ live = 1
  /\ isOnline = TRUE
  /\ cache = [u \in ASSETS_TO_CACHE |-> 0]
  /\ sw = NoWorker
  /\ controller = FALSE
  /\ checks = [p \in CheckIds |-> IdleCheck]
  /\ servePut = 0
  /\ clientInbox = <<>>
  /\ page = [NewPage EXCEPT !.phase = "ready", !.isInitialized = TRUE]
  /\ engine = [NewEngine EXCEPT !.isReady = TRUE, !.fuse = TRUE,
                                !.metadata = ServerManifest(1)]
  /\ lastSearch = NoSearch
  /\ stores = [n \in OtherCacheNames |-> Absent]
  /\ old = NoOld
  /\ request = NoRequest
  /\ entries = {}
  /\ ui = NoUi

NextPages ==
  \/ \E n \in ResultCounts : ShowResults(n)
  \/ ClickPrevious
  \/ ClickNext
  \/ \E p \in 1..(Ceil(MaxResults, resultsPerPage)) : ClickPageNumber(p)

SpecPages == InitPages /\ [][NextPages]_vars

\* --------------------------------------------------------------- tag badges
\* Variant: the pieces between the commas are listed as they are.
getAllTagsUntrimmed(e) ==
  IF e.metadata = NullManifest THEN {}
  ELSE UNION { IF e.metadata.chunks[i].tags \in { Undefined, <<>> } THEN {}
               ELSE LET parts == Split(e.metadata.chunks[i].tags, ",")
                    IN  { parts[k] : k \in 1..Len(parts) } \ { <<>> }
               : i \in 1..Len(e.metadata.chunks) }

\* SearchEngine.getAllTags: the trimmed, non-empty tags of all chunks.
getAllTags(e) ==
  IF e.metadata = NullManifest THEN {}
  ELSE UNION { IF e.metadata.chunks[i].tags \in { Undefined, <<>> } THEN {}
               ELSE LET parts == MapTrim(Split(e.metadata.chunks[i].tags, ","))
                    IN  { parts[k] : k \in 1..Len(parts) } \ { <<>> }
               : i \in 1..Len(e.metadata.chunks) }

\* Texts typed into the search box: none, two keywords with results (one
\* typed with a leading blank), one without.
BadgeInputs == { <<>>, tr, <<" ">> \o an, <<"z", "z">> }

\* selectedTags.add(tag) / selectedTags.delete(tag) on the insertion-ordered
\* Set.
addTag(tags, t) == IF Includes(tags, t) THEN tags ELSE Append(tags, t)
deleteTag(tags, t) == SelectSeq(tags, LAMBDA x : x # t)

\* performSearch of the badge UI: nothing to search for clears the results;
\* else search(query, tags), whose empty answer clears the results and
\* whose non-empty answer is stored and shown from page 1; an error leaves
\* what is shown.
performSearch(u, e) ==
  LET query == Trim(u.input)
      answer == search(e, query, u.selectedTags, 0)
  IN  IF query = <<>> /\ u.selectedTags = <<>>
      THEN [u EXCEPT !.allResults = <<>>, !.currentQuery = <<>>]
      ELSE IF answer.status # "ok" THEN u
      ELSE IF answer.results = <<>>
      THEN [u EXCEPT !.allResults = <<>>, !.currentQuery = <<>>]
      ELSE [u EXCEPT !.allResults = answer.results, !.currentPage = 1,
                     !.currentQuery = query]

\* The user edits the text of the search box.
TypeQuery(text) ==
  /\ page.isInitialized
  /\ ui' = [ui EXCEPT !.input = text]
  /\ UNCHANGED << live, isOnline, cache, sw, controller, checks, servePut,
                  clientInbox, page, engine, lastSearch, stores, old, request,
                  entries >>

\* Search button or Enter key.
ClickSearch ==
  /\ page.isInitialized
  /\ ui' = performSearch(ui, engine)
  /\ UNCHANGED << live, isOnline, cache, sw, controller, checks, servePut,
                  clientInbox, page, engine, lastSearch, stores, old, request,
                  entries >>

\* Autocomplete selection: addTagBadge(tag), the box is emptied,
\* performSearch().
SelectTag(t) ==
  /\ page.isInitialized
  /\ t \in getAllTags(engine)
  /\ ui' = performSearch([ui EXCEPT !.selectedTags = addTag(@, t), !.input = <<>>],
                         engine)
  /\ UNCHANGED << live, isOnline, cache, sw, controller, checks, servePut,
                  clientInbox, page, engine, lastSearch, stores, old, request,
                  entries >>

\* Click on the remove button of a badge: the tag is deleted, the badges
\* are rendered again, and the search is re-run if there was a previous
\* query or a tag is left.
RemoveBadge(t) ==
  /\ Includes(ui.selectedTags, t)
  /\ LET u == [ui EXCEPT !.selectedTags = deleteTag(@, t)]
     IN  ui' = IF u.currentQuery # <<>> \/ Len(u.selectedTags) > 0
               THEN performSearch(u, engine)
               ELSE u
  /\ UNCHANGED << live, isOnline, cache, sw, controller, checks, servePut,
                  clientInbox, page, engine, lastSearch, stores, old, request,
                  entries >>

NextBadges ==
  \/ \E text \in BadgeInputs : TypeQuery(text)
  \/ ClickSearch
  \/ \E t \in TagNames : SelectTag(t)
  \/ \E t \in TagNames : RemoveBadge(t)

SpecBadges == InitPages /\ [][NextBadges]_vars

\* ------------------------------------------- dense variant (acceptance)
\* The strongest metadata signal a chunk has for the query.
DenseSignals == { "title", "tag", "none" }

\* Acceptance floors on base similarity, in thousandths: tuning parameters,
\* ordered title < tag < no signal; a title match at 0.20 is to be kept.
FloorValues == { 100, 200, 400, 600 }
DenseFloors ==
  { f \in [DenseSignals -> FloorValues] :
      f["title"] < f["tag"] /\ f["tag"] < f["none"] }

\* Base similarities (cosine of unit vectors), in thousandths.
Similarities == { 50 * k : k \in 0..20 }

\* Variant: one global cutoff, the floor of the no-signal case.
AcceptsGlobalCutoff(floors, base, signal) == base >= floors["none"]

\* Tiered acceptance: the floor of the chunk's signal tier decides.
Accepts(floors, base, signal) == base >= floors[signal]

\* A dense engine with its floors, before a candidate is judged.
InitDense ==
  /\ live = 1
  /\ isOnline = TRUE
  /\ cache = [u \in ASSETS_TO_CACHE |-> 0]
  /\ sw = NoWorker
  /\ controller = FALSE
  /\ checks = [p \in CheckIds |-> IdleCheck]
  /\ servePut = 0
  /\ clientInbox = <<>>
  /\ page = [NewPage EXCEPT !.phase = "ready", !.isInitialized = TRUE]
  /\ \E f \in DenseFloors :
       engine = [floors |-> f] @@ [NewEngine EXCEPT !.isReady = TRUE,
                                                   !.metadata = ServerManifest(1)]
  /\ lastSearch = NoSearch
  /\ stores = [n \in OtherCacheNames |-> Absent]
  /\ old = NoOld
  /\ request = NoRequest
  /\ entries = {}
  /\ ui = NoUi

\* The acceptance step of the dense search for one ranking candidate.
DenseJudge(base, signal) ==
  /\ lastSearch = NoSearch
  /\ lastSearch' = [status |-> "dense", base |-> base, signal |-> signal,
                    kept |-> Accepts(engine.floors, base, signal)]
  /\ UNCHANGED << live, isOnline, cache, sw, controller, checks, servePut,
                  clientInbox, page, engine, stores, old, request, entries, ui >>

NextDense ==
  \/ \E base \in Similarities, signal \in DenseSignals : DenseJudge(base, signal)
  \/ SearchSettled

SpecDense == InitDense /\ [][NextDense]_vars

\* ------------------------------------------- fetch handler (any request)
\* String.prototype.endsWith.
EndsWith(s, suffix) ==
  Len(suffix) <= Len(s) /\ SubSeq(s, Len(s) - Len(suffix) + 1, Len(s)) = suffix

\* String.prototype.startsWith.
StartsWith(s, prefix) ==
  Len(prefix) <= Len(s) /\ SubSeq(s, 1, Len(prefix)) = prefix

\* '/essay_search_engine/': the path under which the app is deployed.
AppPath ==
  << "/", "e", "s", "s", "a", "y", "_", "s", "e", "a", "r", "c", "h", "_", "e", "n", "g", "i", "n", "e", "/" >>

\* Host the app is served from.
AppHostname ==
  << "u", "s", "e", "r", ".", "g", "i", "t", "h", "u", "b", ".", "i", "o" >>

\* MODEL_DOMAINS.
MODEL_DOMAINS ==
  { << "h", "u", "g", "g", "i", "n", "g", "f", "a", "c", "e", ".", "c", "o" >>,
    << "c", "d", "n", "-", "l", "f", "s", ".", "h", "u", "g", "g", "i", "n", "g", "f", "a", "c", "e", ".", "c", "o" >>,
    << "c", "d", "n", "-", "l", "f", "s", "-", "u", "s", "-", "1", ".", "h", "u", "g", "g", "i", "n", "g", "f", "a", "c", "e", ".", "c", "o" >> }

\* isModelRequest(url).
isModelRequest(url) == \E domain \in MODEL_DOMAINS : Contains(url.hostname, domain)

\* isAppRequest(url).
isAppRequest(url) == Contains(url.pathname, AppPath)

\* The handler answers the event itself (event.respondWith is reached):
\* a GET, no model host, an app path.
Intercepts(req) ==
  /\ req.method = "GET"
  /\ ~isModelRequest(req)
  /\ isAppRequest(req)

\* shouldCache of the fetch handler.
shouldCache(url) ==
  \/ Contains(url.pathname, << "e", "m", "b", "e", "d", "d", "i", "n", "g", "s", ".", "j", "s", "o", "n" >>)
  \/ Contains(url.pathname, << "m", "e", "t", "a", "d", "a", "t", "a", ".", "j", "s", "o", "n" >>)
  \/ Contains(url.pathname, << "v", "e", "r", "s", "i", "o", "n", ".", "j", "s", "o", "n" >>)
  \/ Contains(url.pathname, << "/", "c", "h", "u", "n", "k", "s", "/" >>)
  \/ EndsWith(url.pathname, << ".", "j", "s" >>)
  \/ EndsWith(url.pathname, << ".", "c", "s", "s" >>)
  \/ EndsWith(url.pathname, << ".", "h", "t", "m", "l" >>)

\* Requests a controlled page may issue: the app's page, an app image, a
\* script whose path only contains the app path, a foreign script; on the
\* app's host, a model host and another host; GET or POST.
RequestMethods == { "GET", "POST" }

RequestHosts ==
  { AppHostname,
    << "c", "d", "n", "-", "l", "f", "s", ".", "h", "u", "g", "g", "i", "n", "g", "f", "a", "c", "e", ".", "c", "o" >>,
    << "e", "x", "a", "m", "p", "l", "e", ".", "o", "r", "g" >> }

RequestPaths ==
  { AppPath \o << "i", "n", "d", "e", "x", ".", "h", "t", "m", "l" >>,
    AppPath \o << "l", "o", "g", "o", ".", "p", "n", "g" >>,
    << "/", "l", "i", "b" >> \o AppPath \o << "a", ".", "j", "s" >>,
    << "/", "o", "t", "h", "e", "r", "/", "a", ".", "j", "s" >> }

Requests ==
  { [method |-> m, hostname |-> h, pathname |-> q] :
      m \in RequestMethods, h \in RequestHosts, q \in RequestPaths }

\* The app's page, requested after an upgrade of the worker.
PageRequest ==
  [method |-> "GET", hostname |-> AppHostname, pathname |-> AppPath \o << "i", "n", "d", "e", "x", ".", "h", "t", "m", "l" >>]

\* Cache key of a request.
Key(req) == [hostname |-> req.hostname, pathname |-> req.pathname]

\* A fetch event reaches the active worker; the synchronous part of the
\* handler either returns (the browser handles the request itself) or calls
\* event.respondWith.
FetchEvent(req) ==
  /\ sw.phase = "active"
  /\ controller
  /\ request.pc \in { "none", "passed", "done" }
  /\ request' = [pc |-> IF Intercepts(req) THEN "match" ELSE "passed",
                 method |-> req.method, hostname |-> req.hostname,
                 pathname |-> req.pathname, answer |-> "none", status |-> 0]
  /\ UNCHANGED << live, isOnline, cache, sw, controller, checks, servePut,
                  clientInbox, page, engine, lastSearch, stores, old, entries, ui >>

\* caches.open(CACHE_NAME), cache.match(event.request): a stored response is
\* returned, else the request goes to the network.
RequestMatch ==
  /\ request.pc = "match"
  /\ request' = IF Key(request) \in entries
                THEN [request EXCEPT !.pc = "done", !.answer = "cache", !.status = 200]
                ELSE [request EXCEPT !.pc = "network"]
  /\ UNCHANGED << live, isOnline, cache, sw, controller, checks, servePut,
                  clientInbox, page, engine, lastSearch, stores, old, entries, ui >>

\* Variant: only a missing response is kept out of the store.
NotSuccessfulWhenMissing(status) == status = 0

\* if (!response || response.status !== 200): status 0 stands for a
\* missing response.
NotSuccessful(status) == status = 0 \/ status # 200

\* fetch(event.request) settles: a 200 response is returned and, for a path
\* of the shouldCache list, handed to cache.put; another status (here 404)
\* is returned as it is; a rejection falls back to cache.match, which finds
\* nothing.
RequestNetwork ==
  /\ request.pc = "network"
  /\ \E o \in FetchOutcomes :
       request' =
         IF o = "throw"
         THEN [request EXCEPT !.answer = "error", !.pc = "done"]
         ELSE LET status == IF o = "ok" THEN 200 ELSE 404
              IN  [request EXCEPT !.answer = "network", !.status = status,
                     !.pc = IF NotSuccessful(status) THEN "done"
                            ELSE IF shouldCache(request) THEN "put" ELSE "done"]
  /\ UNCHANGED << live, isOnline, cache, sw, controller, checks, servePut,
                  clientInbox, page, engine, lastSearch, stores, old, entries, ui >>

\* The un-awaited cache.put(event.request, responseToCache) completes or
\* rejects.
RequestPut ==
  /\ request.pc = "put"
  /\ \E ok \in BOOLEAN :
       entries' = IF ok THEN entries \cup { Key(request) } ELSE entries
  /\ request' = [request EXCEPT !.pc = "done"]
  /\ UNCHANGED << live, isOnline, cache, sw, controller, checks, servePut,
                  clientInbox, page, engine, lastSearch, stores, old, ui >>

\* An installed, active worker controlling the page, before any request.
ActiveWorker == [NoWorker EXCEPT !.phase = "active"]

InitFetch ==
  /\ live = 1
  /\ isOnline \in BOOLEAN
  /\ cache = [u \in ASSETS_TO_CACHE |-> 0]
  /\ sw = ActiveWorker
  /\ controller = TRUE
  /\ checks = [p \in CheckIds |-> IdleCheck]
  /\ servePut = 0
  /\ clientInbox = <<>>
  /\ page = NewPage
  /\ engine = NewEngine
  /\ lastSearch = NoSearch
  /\ stores = [n \in OtherCacheNames |-> Absent]
  /\ old = NoOld
  /\ request = NoRequest
  /\ entries = {}
  /\ ui = NoUi

NextFetch ==
  \/ \E req \in Requests : FetchEvent(req)
  \/ RequestMatch
  \/ RequestNetwork
  \/ RequestPut

SpecFetch == InitFetch /\ [][NextFetch]_vars

\* --------------------------------------------- upgrade from the old worker
\* Fetch handler of the previous instance (src/src/service-worker.js), which
\* controls the page until the new instance activates: a request for
\* metadata.json reaches it.
OldFetchEvent ==
  /\ sw.phase \in { "installing", "precaching", "activating" }
  /\ old.pc \in { "none", "done" }
  /\ old' = [pc |-> "open", resp |-> 0]
  /\ UNCHANGED << live, isOnline, cache, sw, controller, checks, servePut,
                  clientInbox, page, engine, lastSearch, stores, request,
                  entries, ui >>

\* caches.open('essay-search-v1') resolves, creating the cache when it does
\* not exist.
OldOpen ==
  /\ old.pc = "open"
  /\ old' = [old EXCEPT !.pc = "match"]
  /\ stores' = [stores EXCEPT ![OLD_CACHE_NAME] = IF @ = Absent THEN 0 ELSE @]
  /\ UNCHANGED << live, isOnline, cache, sw, controller, checks, servePut,
                  clientInbox, page, engine, lastSearch, request, entries, ui >>

\* cache.match(event.request): a hit is served, a miss goes to the network.
OldMatch ==
  /\ old.pc = "match"
  /\ old' = [old EXCEPT !.pc = IF stores[OLD_CACHE_NAME] > 0 THEN "done" ELSE "network"]
  /\ UNCHANGED << live, isOnline, cache, sw, controller, checks, servePut,
                  clientInbox, page, engine, lastSearch, stores, request,
                  entries, ui >>

\* fetch(event.request) settles; a 200 response is handed to cache.put.
OldNetwork ==
  /\ old.pc = "network"
  /\ \E o \in FetchOutcomes :
       old' = IF o = "ok" THEN [old EXCEPT !.pc = "put", !.resp = live]
              ELSE [old EXCEPT !.pc = "done"]
  /\ UNCHANGED << live, isOnline, cache, sw, controller, checks, servePut,
                  clientInbox, page, engine, lastSearch, stores, request,
                  entries, ui >>

\* The un-awaited cache.put of the previous instance completes or rejects.
OldPut ==
  /\ old.pc = "put"
  /\ \E ok \in BOOLEAN :
       stores' = IF ok THEN [stores EXCEPT ![OLD_CACHE_NAME] = old.resp] ELSE stores
  /\ old' = [old EXCEPT !.pc = "done", !.resp = 0]
  /\ UNCHANGED << live, isOnline, cache, sw, controller, checks, servePut,
                  clientInbox, page, engine, lastSearch, request, entries, ui >>

\* A visit of a page controlled by the previous worker finds the new worker
\* script: its installation starts while any set of other caches exists,
\* the old one holding the manifest of the first dataset or nothing.
InitUpgrade ==
  /\ live \in 1..MaxVersion
  /\ isOnline = TRUE
  /\ cache = [u \in ASSETS_TO_CACHE |-> 0]
  /\ sw = StartInstall(NoWorker)
  /\ controller = FALSE
  /\ checks = [p \in CheckIds |-> IdleCheck]
  /\ servePut = 0
  /\ clientInbox = <<>>
  /\ page = NewPage
  /\ engine = NewEngine
  /\ lastSearch = NoSearch
  /\ stores \in [OtherCacheNames -> { Absent, 0, 1 }]
  /\ stores[MODEL_CACHE_NAME] # 1
  /\ stores[StaleCacheName] # 1
  /\ old = NoOld
  /\ request = NoRequest
  /\ entries = {}
  /\ ui = NoUi

NextUpgrade ==
  \/ Publish
  \/ \E url \in ASSETS_TO_CACHE : InstallAdd(url)
  \/ InstallPrecache
  \/ InstallChunkAdd
  \/ InstallComplete
  \/ ActivateKeys
  \/ \E name \in OtherCacheNames \cup { CACHE_NAME } : ActivateDelete(name)
  \/ Activate
  \/ OldFetchEvent
  \/ OldOpen
  \/ OldMatch
  \/ OldNetwork
  \/ OldPut
  \/ FetchEvent(PageRequest)
  \/ RequestMatch
  \/ RequestNetwork
  \/ RequestPut

SpecUpgrade == InitUpgrade /\ [][NextUpgrade]_vars

\* ------------------------------------------------ installation on its own
\* The first visit up to the worker's activation: the page registers the
\* worker, the server may publish and the network may come and go while the
\* install handler runs.  Every fetch and cache.add of the handler settles
\* (the browser resolves or rejects it) and every settled promise runs its
\* reaction, hence the weak fairness of the handler's steps.
NextInstall ==
  \/ Publish
  \/ Offline
  \/ Online
  \/ DOMContentLoaded
  \/ \E url \in ASSETS_TO_CACHE : InstallAdd(url)
  \/ InstallPrecache
  \/ InstallChunkAdd
  \/ InstallComplete
  \/ ActivateKeys
  \/ Activate

SpecInstall ==
  /\ Init
  /\ [][NextInstall]_vars
  /\ WF_vars(\E url \in ASSETS_TO_CACHE : InstallAdd(url))
  /\ WF_vars(InstallPrecache)
  /\ WF_vars(InstallChunkAdd)
  /\ WF_vars(InstallComplete)

\* ------------------------------------------------ concurrent update checks
\* An installed worker controlling a ready page; the store holds the dataset
\* of version 1, with or without its version.json (each cache.add of the
\* install fails on its own).  Checks are posted by the timer and by the
\* 'online' listener while the server publishes.
InitChecks ==
  /\ live = 1
  /\ isOnline = TRUE
  /\ \E v \in { 0, 1 } :
       cache = [u \in ASSETS_TO_CACHE |-> IF u = VersionUrl THEN v ELSE 1]
  /\ sw = ActiveWorker
  /\ controller = TRUE
  /\ checks = [p \in CheckIds |-> IdleCheck]
  /\ servePut = 0
  /\ clientInbox = <<>>
  /\ page = [NewPage EXCEPT !.phase = "ready", !.serviceWorkerReady = TRUE,
                            !.isInitialized = TRUE]
  /\ engine = [NewEngine EXCEPT !.isReady = TRUE, !.fuse = TRUE,
                                !.metadata = ServerManifest(1)]
  /\ lastSearch = NoSearch
  /\ stores = [n \in OtherCacheNames |-> Absent]
  /\ old = NoOld
  /\ request = NoRequest
  /\ entries = {}
  /\ ui = NoUi

NextChecks ==
  \/ Publish
  \/ TimerTick
  \/ Online
  \/ Offline
  \/ \E p \in CheckIds : FetchVersion(p)
  \/ \E p \in CheckIds : ReadCachedVersion(p)
  \/ \E p \in CheckIds : FetchEmbeddings(p)
  \/ \E p \in CheckIds : PutEmbeddings(p)
  \/ \E p \in CheckIds : PutVersion(p)

SpecChecks == InitChecks /\ [][NextChecks]_vars

\* ------------------------------------------------- initialize, called again
\* What a call of SearchEngine.initialize does before its first await: the
\* early return of a ready engine, the "Already initializing" error of a
\* loading one, otherwise the start of a load.
initializeOutcome(e) ==
  IF e.isReady THEN "returned"
  ELSE IF e.isLoading THEN "Already initializing"
  ELSE "started"

\* A call of SearchEngine.initialize by any caller; the outcome of the call
\* is kept as the last outcome of a call to the engine.
InitializeCall ==
  /\ lastSearch' = [NoSearch EXCEPT !.status = initializeOutcome(engine)]
  /\ engine' = initializeStart(engine)
  /\ UNCHANGED << live, isOnline, cache, sw, controller, checks, servePut,
                  clientInbox, page, stores, old, request, entries, ui >>

\* main.js has made its call of searchEngine.initialize(): the engine is
\* loading and the metadata.json request is in flight, no worker yet.
InitInitialize ==
  /\ live = 1
  /\ isOnline = TRUE
  /\ cache = [u \in ASSETS_TO_CACHE |-> 0]
  /\ sw = NoWorker
  /\ controller = FALSE
  /\ checks = [p \in CheckIds |-> IdleCheck]
  /\ servePut = 0
  /\ clientInbox = <<>>
  /\ stores = [n \in OtherCacheNames |-> Absent]
  /\ old = NoOld
  /\ request = NoRequest
  /\ entries = {}
  /\ ui = NoUi
  /\ page = [NewPage EXCEPT !.phase = "initializing"]
  /\ engine = initializeStart(NewEngine)
  /\ lastSearch = NoSearch

NextInitialize ==
  \/ Publish
  \/ Online
  \/ Offline
  \/ MetadataResponse
  \/ MetadataParsed
  \/ InitializeCall
  \/ SearchCall(tr, <<>>, 0)
  \/ SearchSettled

SpecInitialize == InitInitialize /\ [][NextInitialize]_vars

\* ------------------------------------------------------------ tag listing
\* UTF-16 code units of the characters of the test data.
CodeUnit(c) ==
  CASE c = " " -> 32
    [] c = "," -> 44
    [] c = "A" -> 65
    [] c = "a" -> 97
    [] c = "c" -> 99
    [] c = "n" -> 110
    [] c = "r" -> 114
    [] c = "t" -> 116
    [] OTHER -> 122

RECURSIVE SortsBefore(_, _)
\* The order of Array.prototype.sort() without a comparator: strings by
\* their code units, a proper prefix first.
SortsBefore(s, t) ==
  IF t = <<>> THEN FALSE
  ELSE IF s = <<>> THEN TRUE
  ELSE IF CodeUnit(Head(s)) # CodeUnit(Head(t))
       THEN CodeUnit(Head(s)) < CodeUnit(Head(t))
       ELSE SortsBefore(Tail(s), Tail(t))

RECURSIVE SortTags(_)
\* Array.from(tagSet).sort().
SortTags(tagSet) ==
  IF tagSet = {} THEN <<>>
  ELSE LET first == CHOOSE x \in tagSet :
                      \A y \in tagSet \ {x} : SortsBefore(x, y)
       IN  <<first>> \o SortTags(tagSet \ {first})

\* A call of SearchEngine.getAllTags(); the array returned is kept as the
\* outcome of the last call to the engine.
GetAllTagsCall ==
  /\ lastSearch = NoSearch
  /\ lastSearch' = [NoSearch EXCEPT !.status = "tags",
                                    !.results = SortTags(getAllTags(engine))]
  /\ UNCHANGED << live, isOnline, cache, sw, controller, checks, servePut,
                  clientInbox, page, engine, stores, old, request, entries, ui >>

\* search("", [t]) for a tag t of the array getAllTags returned.
SearchListedTag ==
  /\ lastSearch.status = "tags"
  /\ \E i \in 1..Len(lastSearch.results) :
       /\ lastSearch' = search(engine, <<>>, << lastSearch.results[i] >>, 0)
       /\ engine' = afterSearch(engine, << lastSearch.results[i] >>)
  /\ UNCHANGED << live, isOnline, cache, sw, controller, checks, servePut,
                  clientInbox, page, stores, old, request, entries, ui >>

NextTags == MetadataParsed \/ GetAllTagsCall \/ SearchListedTag \/ SearchSettled

SpecTags == InitSearch /\ [][NextTags]_vars

\* ================================================================= claims
\* A step of one of the update checks.
CheckStep == checks' # checks

\* Check p ends in this step reporting `type`.
Reports(p, type) ==
  /\ checks[p].pc \notin { "idle", "done" }
  /\ checks'[p].pc = "done"
  /\ checks'[p].reports = <<type>>

\* C1: an update check overwrites the stored version descriptor only in the
\* step after its embeddings.json download and cache write succeeded (the
\* asset is in the store and stays untouched by that step), writing the
\* checksum it fetched and reporting UPDATE_AVAILABLE; every other step of a
\* check (non-OK or failed asset fetch, failed asset write, failed descriptor
\* write) leaves the stored descriptor as it was.
C1_VersionSwapOrdering ==
  [][ (CheckStep /\ cache'[VersionUrl] # cache[VersionUrl]) =>
        \E p \in CheckIds :
          /\ checks[p].pc = "putVersion"
          /\ Reports(p, "UPDATE_AVAILABLE")
          /\ cache'[VersionUrl] = checks[p].newVersion
          /\ cache[EmbeddingsUrl] # 0
          /\ cache'[EmbeddingsUrl] = cache[EmbeddingsUrl] ]_vars

\* C1 witness: a check ended with UPDATE_FAILED (asset fetch threw or asset
\* write failed) while the store keeps an older descriptor than the live one.
C1_Witness ==
  \E p \in CheckIds :
    /\ checks[p].pc = "done"
    /\ checks[p].reports = <<"UPDATE_FAILED">>
    /\ cache[VersionUrl] # 0
    /\ cache[VersionUrl] < live

\* C2: whenever the store holds a version descriptor, it holds the
\* embeddings.json of that same version (the asset the checksum was computed
\* over), in every reachable state.
C2_DescriptorHasItsAsset ==
  cache[VersionUrl] # 0 => cache[EmbeddingsUrl] = cache[VersionUrl]

\* The tag string of a chunk holds, between two delimiters, the tag t
\* surrounded by blanks only.
IsBlank(s) == \A i \in 1..Len(s) : s[i] = " "

Carries(chunk, t) ==
  /\ chunk.tags # Undefined
  /\ t = <<>> \/ (t[1] # " " /\ t[Len(t)] # " ")
  /\ \E a \in 0..Len(chunk.tags), b \in 0..Len(chunk.tags) :
       /\ a <= b
       /\ a = 0 \/ chunk.tags[a] = ","
       /\ b = Len(chunk.tags) \/ chunk.tags[b + 1] = ","
       /\ \A i \in (a + 1)..b : chunk.tags[i] # ","
       /\ \E x \in a..b, y \in a..b :
            /\ x <= y
            /\ IsBlank(SubSeq(chunk.tags, a + 1, x))
            /\ SubSeq(chunk.tags, x + 1, y) = t
            /\ IsBlank(SubSeq(chunk.tags, y + 1, b))

\* C3: every chunk returned by search carries every requested tag (AND).
C3_ResultsCarryEveryTag ==
  lastSearch.status = "ok" =>
    \A i \in 1..Len(lastSearch.results) :
      \A k \in 1..Len(lastSearch.tags) :
        Carries(lastSearch.results[i].chunk, lastSearch.tags[k])

\* C3 witness: a search with two requested tags returned a chunk while the
\* manifest also holds a chunk that carries only one of the two.
C3_Witness ==
  /\ lastSearch.status = "ok"
  /\ Len(lastSearch.tags) = 2
  /\ lastSearch.results # <<>>
  /\ \E j \in 1..Len(engine.metadata.chunks) :
       /\ Carries(engine.metadata.chunks[j], lastSearch.tags[1])
       /\ ~Carries(engine.metadata.chunks[j], lastSearch.tags[2])

\* C4: a search on an engine that is not ready (initialize in flight, or
\* failed) is answered at once with the not-ready error and no results,
\* leaves the engine as it is, and no later step of the load delivers
\* results for it.
C4_NotReadyFailsFast ==
  [][ /\ (lastSearch' # lastSearch /\ lastSearch' # NoSearch /\ ~engine.isReady) =>
           /\ lastSearch'.status = "notReady"
           /\ lastSearch'.results = <<>>
           /\ engine' = engine
      /\ engine' # engine => lastSearch' = lastSearch ]_vars

\* C4 witness: the last search was rejected as not ready, the load has
\* completed since, and the rejected search got no results.
C4_Witness ==
  /\ lastSearch.status = "notReady"
  /\ engine.isReady
  /\ engine.metadata.chunks # <<>>

\* C5: while the page is not reloaded, a ready engine stays ready and keeps
\* the manifest it loaded, whatever the worker, the server or callers do.
C5_NoMidSessionUpdate ==
  [][ (engine.isReady /\ page'.phase # "loading") =>
        (engine'.isReady /\ engine'.metadata = engine.metadata) ]_vars

\* C5 witness: a check has stored a newer version and reported
\* UPDATE_AVAILABLE while the running session still holds the old manifest.
C5_Witness ==
  /\ engine.isReady
  /\ \E p \in CheckIds :
       /\ checks[p].pc = "done"
       /\ checks[p].reports = <<"UPDATE_AVAILABLE">>
       /\ engine.metadata # ServerManifest(checks[p].newVersion)
       /\ cache[VersionUrl] = checks[p].newVersion

\* C6: when a check ends with UPDATE_AVAILABLE for version n, the manifest
\* in the store (which the cache-first fetch handler serves to the next
\* session) is that of version n.
C6_UpdateReplacesManifest ==
  [][ \A p \in CheckIds :
        (Reports(p, "UPDATE_AVAILABLE") /\ cache[MetadataUrl] # 0) =>
          cache'[MetadataUrl] = checks'[p].newVersion ]_vars

\* C7: the stored embeddings.json and the stored metadata.json have the same
\* number of entries (they belong to the same dataset version).
C7_StoredAssetsAligned ==
  (cache[EmbeddingsUrl] # 0 /\ cache[MetadataUrl] # 0) =>
    Embeddings(cache[EmbeddingsUrl]).count =
      Len(ServerManifest(cache[MetadataUrl]).chunks)

\* C8: when a check reports UPDATE_AVAILABLE, the notification is posted to
\* the page (it is on its way to the page's message listener).
C8_UpdateAvailableReachesPage ==
  [][ \A p \in CheckIds :
        Reports(p, "UPDATE_AVAILABLE") =>
          (clientInbox' # clientInbox \/ page'.updateAvailable) ]_vars

\* C9: a check that has ended made exactly one report, of kind up-to-date,
\* update-available or check-failed (UPDATE_CHECK_FAILED, UPDATE_FAILED).
C9_ExactlyOneOutcome ==
  \A p \in CheckIds :
    checks[p].pc = "done" =>
      /\ Len(checks[p].reports) = 1
      /\ checks[p].reports[1] \in
           { "UP_TO_DATE", "UPDATE_AVAILABLE", "UPDATE_CHECK_FAILED", "UPDATE_FAILED" }

C11_FailedCheckReportsAndKeepsStore ==
  [][ \A p \in CheckIds :
        ( /\ checks[p].pc \in { "fetchVersion", "fetchEmbeddings" }
          /\ checks'[p].pc = "done" ) =>
        ( /\ checks'[p].reports \in { <<"UPDATE_CHECK_FAILED">>, <<"UPDATE_FAILED">> }
          /\ cache' = cache
          /\ \A q \in CheckIds \ {p} : checks'[q] = checks[q] ) ]_vars

\* C12: a request of a controlled page (one that is not reloaded meanwhile)
\* whose entry is in the store is answered in one step with the stored response, whatever the server
\* publishes now and whether or not the network is reachable: no network
\* response is used and none is handed to cache.put.
C12_CacheFirst ==
  [][ ( /\ engine.pc = "fetching"
        /\ engine' # engine
        /\ page'.phase # "loading"
        /\ Intercepted
        /\ cache[MetadataUrl] # 0 ) =>
      ( /\ engine'.pc = "parsing"
        /\ engine'.via = "cache"
        /\ engine'.resp = ServerManifest(cache[MetadataUrl])
        /\ servePut' = servePut
        /\ cache' = cache ) ]_vars

\* C12 witness: offline, the page's request was answered from the store with
\* a manifest that is not the one the server publishes.
C12_Witness ==
  /\ engine.pc = "parsing"
  /\ engine.via = "cache"
  /\ ~isOnline
  /\ engine.resp = ServerManifest(cache[MetadataUrl])
  /\ cache[MetadataUrl] # live

\* C13: when the worker answers a cache miss with a successful network
\* response, a copy of that response is in the store at the moment the
\* response is returned to the page.
C13_CopyStoredBeforeReturn ==
  [][ ( /\ engine.pc = "fetching"
        /\ Intercepted
        /\ cache[MetadataUrl] = 0
        /\ engine'.pc = "parsing"
        /\ engine'.resp # BadBody ) =>
      cache'[MetadataUrl] = live ]_vars

\* C14: an installation that has started always finishes and reaches
\* skipWaiting (the worker goes on to activation), whichever of its fetches
\* fail: any subset of ASSETS_TO_CACHE, the metadata.json fetch of the chunk
\* pre-caching, any chunk page.
C14_InstallCompletes ==
  (sw.phase \in { "installing", "precaching" }) ~> (sw.phase = "activating")

\* C14 witness: the installation completed although every cache.add of
\* ASSETS_TO_CACHE failed (nothing is stored).
C14_Witness ==
  /\ sw.phase = "activating"
  /\ \A u \in ASSETS_TO_CACHE : cache[u] = 0

\* C15: when the install could not store metadata.json, the activation that
\* follows retries it: as activation completes the manifest is in the store
\* or a cache.add for it is under way.
C15_ManifestRetriedAtActivation ==
  [][ ( /\ sw.phase = "deleting"
        /\ sw'.phase = "active"
        /\ cache[MetadataUrl] = 0 ) =>
      ( cache'[MetadataUrl] # 0 \/ MetadataUrl \in sw'.pending ) ]_vars

\* C16 (as claimed): once activation has completed, no cache other than
\* CACHE_NAME exists, whatever caches existed before.
C16_EveryOtherStoreDeleted ==
  sw.phase = "active" => \A n \in OtherCacheNames : stores[n] = Absent

\* C16 (amended): once activation has completed, every cache whose name is
\* neither CACHE_NAME nor MODEL_CACHE_NAME is deleted, whatever caches
\* existed before; the model cache is left as it is; and every entry written
\* to CACHE_NAME is a response just fetched from the network, none is taken
\* over from an old cache.
C16_UnkeptStoresDeleted ==
  [][ /\ sw'.phase = "active" =>
           \A n \in OtherCacheNames \ { MODEL_CACHE_NAME } : stores'[n] = Absent
      /\ stores'[MODEL_CACHE_NAME] = stores[MODEL_CACHE_NAME]
      /\ \A u \in ASSETS_TO_CACHE : cache'[u] # cache[u] => cache'[u] = live ]_vars

\* C16 witness: activation completed after deleting the old worker's cache
\* (which held a manifest no longer published) and the stale cache, the
\* model cache still being there.
C16_Witness ==
  /\ sw.phase = "active"
  /\ sw.deleted = { OLD_CACHE_NAME, StaleCacheName }
  /\ stores[MODEL_CACHE_NAME] = 0
  /\ cache[MetadataUrl] > 1

\* C17: the install handler is through (no cache.add pending) before the
\* activation starts, and the activation is through (deletions done, clients
\* claimed) before the worker handles a request or controls the page.
C17_InstallActivateServe ==
  /\ sw.phase \in { "activating", "deleting", "active" } =>
       (sw.pending = {} /\ sw.chunks = 0)
  /\ (controller \/ request.pc # "none" \/ engine.via = "cache" \/ servePut # 0) =>
       (sw.phase = "active" /\ sw.toDelete = {})

\* C17 witness: the worker served a request from its store after an
\* activation that deleted old caches.
C17_Witness ==
  /\ request.answer = "cache"
  /\ sw.deleted # {}
  /\ sw.phase = "active"

\* The previous instance serves from, or writes into, its cache.
OldUsesStore ==
  \/ old.pc = "match" /\ old'.pc = "done"
  \/ old.pc = "put" /\ stores' # stores

\* The new instance serves from, or writes into, its cache.
NewUsesStore ==
  \/ request.pc = "match" /\ request'.answer = "cache"
  \/ request.pc = "put" /\ entries' # entries

\* C18: no step of either instance serves a request from, or writes a
\* response into, a cache that the new instance has deleted.
C18_NoUseOfDeletedStore ==
  [][ /\ OldUsesStore => OLD_CACHE_NAME \notin sw.deleted
      /\ NewUsesStore => CACHE_NAME \notin sw.deleted ]_vars

\* C18 witness: the old instance had a request in flight when the new one
\* took over and deleted its cache, and the new instance has since stored a
\* response in its own cache.
C18_Witness ==
  /\ old.pc = "terminated"
  /\ OLD_CACHE_NAME \in sw.deleted
  /\ entries # {}

\* C19: the handler answers a request itself only if it is a GET to the
\* app's own host for a path under the app path; any other request is left
\* to the browser and no cache changes.
C19_OnlyOwnRequestsIntercepted ==
  [][ /\ request'.pc = "match" =>
           /\ request'.method = "GET"
           /\ request'.hostname = AppHostname
           /\ StartsWith(request'.pathname, AppPath)
      /\ request'.pc = "passed" => (entries' = entries /\ cache' = cache) ]_vars

RECURSIVE CarryingAll(_, _)
\* The chunks of a manifest that carry every tag of a filter, in manifest
\* order, each with the score 1.0 (1000 thousandths).
CarryingAll(chunks, tags) ==
  IF chunks = <<>> THEN <<>>
  ELSE LET rest == CarryingAll(Tail(chunks), tags)
       IN  IF \A k \in 1..Len(tags) : Carries(Head(chunks), tags[k])
           THEN << [chunk |-> Head(chunks), score |-> 1000] >> \o rest
           ELSE rest

\* The last search was answered for an empty or whitespace-only query.
BlankQueryAnswered == lastSearch.status = "ok" /\ IsBlank(lastSearch.query)

\* C20 (as claimed): with an empty or whitespace-only query, search returns
\* exactly the chunks that pass the tag filter, once each, in manifest order,
\* all with score 1.0, whatever the third argument.
C20_BlankQueryReturnsAllFiltered ==
  BlankQueryAnswered =>
    lastSearch.results = CarryingAll(engine.metadata.chunks, lastSearch.tags)

\* C20 (amended): with an empty or whitespace-only query, search returns the
\* chunks that pass the tag filter, once each, in manifest order, all with
\* score 1.0: all of them when no limit is given, the first `limit` of them
\* otherwise; with an empty tag filter these are the chunks of the whole
\* manifest.
C20_BlankQueryReturnsFilteredUpToLimit ==
  BlankQueryAnswered =>
    LET all == CarryingAll(engine.metadata.chunks, lastSearch.tags)
        n == IF lastSearch.limit = 0 \/ lastSearch.limit > Len(all)
             THEN Len(all) ELSE lastSearch.limit
    IN  /\ lastSearch.results = [i \in 1..n |-> all[i]]
        /\ lastSearch.tags = <<>> =>
             Len(all) = Len(engine.metadata.chunks)

\* C20 witness: a whitespace-only query with a tag filter and no limit
\* returned some chunks of the manifest and left one out.
C20_Witness ==
  /\ BlankQueryAnswered
  /\ lastSearch.query # <<>>
  /\ lastSearch.tags # <<>>
  /\ lastSearch.limit = 0
  /\ lastSearch.results # <<>>
  /\ Len(lastSearch.results) < Len(engine.metadata.chunks)

\* C21: for a manifest of N chunks, every result of a search is a chunk of
\* the manifest (so never an undefined one), no chunk appears twice, and there
\* are at most N results.
C21_ResultsAreManifestChunks ==
  lastSearch.status = "ok" =>
    LET chunks == engine.metadata.chunks
        rs == lastSearch.results
    IN  /\ Len(rs) <= Len(chunks)
        /\ \A i \in 1..Len(rs) : \E j \in 1..Len(chunks) : chunks[j] = rs[i].chunk
        /\ \A i, j \in 1..Len(rs) :
             i # j => rs[i].chunk.chunk_id # rs[j].chunk.chunk_id

\* A keyword search in which some chunk matches on its title and on its tags,
\* and every chunk of a manifest of two or more is returned.
C21_Witness ==
  /\ lastSearch.status = "ok"
  /\ Len(Trim(lastSearch.query)) > 0
  /\ Len(lastSearch.results) >= 2
  /\ Len(lastSearch.results) = Len(engine.metadata.chunks)
  /\ \E i \in 1..Len(lastSearch.results) :
       /\ FieldMatches(lastSearch.results[i].chunk.book_title, Trim(lastSearch.query))
       /\ FieldMatches(lastSearch.results[i].chunk.tags, Trim(lastSearch.query))

\* C22: for a non-empty query the results come in non-increasing score order,
\* and results of equal score keep the order they have in the manifest.
C22_RankedAndStable ==
  (lastSearch.status = "ok" /\ Len(Trim(lastSearch.query)) > 0) =>
    LET rs == lastSearch.results
    IN  \A i, j \in 1..Len(rs) :
          i < j => /\ rs[i].score >= rs[j].score
                   /\ rs[i].score = rs[j].score =>
                        rs[i].chunk.chunk_id < rs[j].chunk.chunk_id

\* A keyword search returning two chunks with the same score.
C22_Witness ==
  /\ lastSearch.status = "ok"
  /\ Len(Trim(lastSearch.query)) > 0
  /\ Len(lastSearch.results) >= 2
  /\ lastSearch.results[1].score = lastSearch.results[2].score

\* C23: against an unchanged manifest, a search with the query and tag
\* filter of an earlier search returns the same ordered list as that earlier
\* search did, whatever searches ran in between.
C23_RepeatedSearchAgrees ==
  ( /\ lastSearch.status = "ok"
    /\ ui.allResults # <<>>
    /\ lastSearch.limit = 0
    /\ lastSearch.query = ui.currentQuery
    /\ lastSearch.tags = ui.selectedTags )
  => lastSearch.results = ui.allResults

\* A tag-filtered search whose results are kept is run a second time.
C23_Witness ==
  /\ lastSearch.status = "ok"
  /\ ui.allResults # <<>>
  /\ lastSearch.limit = 0
  /\ lastSearch.query = ui.currentQuery
  /\ lastSearch.tags = ui.selectedTags
  /\ Len(lastSearch.tags) > 0
  /\ Len(lastSearch.results) < Len(engine.metadata.chunks)

\* C24: a search on a ready engine never raises: whatever the query, the tag
\* filter and the manifest (chunks without tags included), it returns a
\* well-formed list of scored chunks, empty when nothing matches.
C24_ReadySearchNeverRaises ==
  [][ (lastSearch' # lastSearch /\ lastSearch' # NoSearch /\ engine.isReady) =>
        /\ lastSearch'.status = "ok"
        /\ DOMAIN lastSearch'.results = 1..Len(lastSearch'.results)
        /\ \A i \in 1..Len(lastSearch'.results) :
             /\ lastSearch'.results[i].score \in 0..1000
             /\ lastSearch'.results[i].chunk.chunk_id \in Nat ]_vars

\* A tag-filtered keyword search matching nothing, on a manifest holding a
\* chunk without tags, has returned the empty list.
C24_Witness ==
  /\ engine.isReady
  /\ lastSearch.status = "ok"
  /\ lastSearch.results = <<>>
  /\ Len(lastSearch.tags) > 0
  /\ Len(Trim(lastSearch.query)) > 0
  /\ \E i \in 1..Len(engine.metadata.chunks) :
       engine.metadata.chunks[i].tags = Undefined

\* The chunk is one of the results of the last search.
InResults(chunk) ==
  \E i \in 1..Len(lastSearch.results) : lastSearch.results[i].chunk = chunk

\* The chunk carries the tag t up to letter case.
CarriesIgnoringCase(chunk, t) ==
  Carries([chunk EXCEPT !.tags = ToLowerCase(@)], ToLowerCase(t))

\* The last search was answered for one requested tag, a blank query and no
\* limit: its results are the chunks that pass the filter for that tag.
OneTagFilterAnswered ==
  /\ lastSearch.status = "ok"
  /\ IsBlank(lastSearch.query)
  /\ lastSearch.limit = 0
  /\ Len(lastSearch.tags) = 1

\* C25 (as claimed): a chunk passes the filter for a requested tag when one
\* of its delimiter-separated tags equals the requested tag after case
\* normalization.
C25_CaseNormalizedMatch ==
  OneTagFilterAnswered =>
    \A j \in 1..Len(engine.metadata.chunks) :
      CarriesIgnoringCase(engine.metadata.chunks[j], lastSearch.tags[1])
        => InResults(engine.metadata.chunks[j])

\* C25 (amended): a chunk passes the filter for a requested tag exactly when
\* one of its delimiter-separated tags, trimmed of surrounding blanks, equals
\* the requested tag character for character, letter case included.
C25_ExactCaseMatch ==
  OneTagFilterAnswered =>
    \A j \in 1..Len(engine.metadata.chunks) :
      InResults(engine.metadata.chunks[j])
        <=> Carries(engine.metadata.chunks[j], lastSearch.tags[1])

\* The tag an was requested of a manifest holding a chunk tagged An, which
\* is not among the results.
C25_Witness ==
  /\ OneTagFilterAnswered
  /\ lastSearch.tags = << an >>
  /\ \E j \in 1..Len(engine.metadata.chunks) :
       /\ engine.metadata.chunks[j].tags = <<"A", "n">>
       /\ ~InResults(engine.metadata.chunks[j])

\* Page p of the result list as renderResults slices it.
PageOf(u, p) == pageResults([u EXCEPT !.currentPage = p])

RECURSIVE PagesUpTo(_, _)
\* Pages 1..p one after the other.
PagesUpTo(u, p) == IF p = 0 THEN <<>> ELSE PagesUpTo(u, p - 1) \o PageOf(u, p)

\* C26: totalPages is ceil(total / 25); page p shows exactly the results
\* (p-1)*25 .. min(p*25, total)-1; every page but the last has 25 results;
\* pages 1..totalPages one after the other are the full list, in order.
C26_PagesPartitionResults ==
  LET n == Len(ui.allResults)
      tp == totalPages(ui)
  IN  /\ tp * 25 >= n
      /\ n > 0 => (tp - 1) * 25 < n
      /\ n = 0 => tp = 0
      /\ \A p \in 1..tp :
           LET first == (p - 1) * 25
               last == (IF p * 25 < n THEN p * 25 ELSE n) - 1
           IN  /\ Len(PageOf(ui, p)) = last - first + 1
               /\ \A k \in 1..Len(PageOf(ui, p)) :
                    PageOf(ui, p)[k] = ui.allResults[first + k]
               /\ p < tp => Len(PageOf(ui, p)) = 25
      /\ PagesUpTo(ui, tp) = ui.allResults
      /\ (n > 0 /\ ui.currentPage \in 1..tp) => pageResults(ui) = PageOf(ui, ui.currentPage)

\* The last page of a list of several pages is shown and holds fewer than
\* 25 results.
C26_Witness ==
  /\ totalPages(ui) >= 3
  /\ ui.currentPage = totalPages(ui)
  /\ Len(pageResults(ui)) \in 1..24

\* C27: a request for a page above totalPages (below 1) yields the last
\* (first) page; while there are results the page shown is one of
\* 1..totalPages and is not empty.
C27_PageStaysInRange ==
  Len(ui.allResults) > 0 =>
    LET tp == totalPages(ui)
    IN  /\ ui.currentPage \in 1..tp
        /\ pageResults(ui) # <<>>
        /\ ui.requested # NoPage =>
             ui.currentPage = (IF ui.requested > tp THEN tp
                               ELSE IF ui.requested < 1 THEN 1 ELSE ui.requested)

\* Next was clicked on the last page of several: the page after the last
\* was asked for and the last page is shown.
C27_Witness ==
  /\ Len(ui.allResults) > resultsPerPage
  /\ ui.requested = totalPages(ui) + 1
  /\ ui.currentPage = totalPages(ui)
  /\ pageResults(ui) # <<>>

\* C28: once updateAvailable is true, no step of the session (a further
\* check, an UP_TO_DATE or failure message, going offline or online, a
\* search) makes it false again, except a reload, which starts a fresh page.
C28_UpdatePendingUntilReload ==
  [][ (page.updateAvailable /\ ~page'.updateAvailable) =>
        (page' = NewPage /\ engine' = NewEngine /\ lastSearch' = NoSearch) ]_vars

\* With the update pending, the page went offline and a search was answered.
C28_Witness ==
  /\ page.updateAvailable
  /\ ~isOnline
  /\ lastSearch.status = "ok"

\* What the page shows for a query text and selected tags: nothing when
\* both are empty, else the chunks search returns for them.
ResultsFor(text, tags) ==
  IF Trim(text) = <<>> /\ tags = <<>> THEN <<>>
  ELSE SearchResults(engine.metadata, Trim(text), tags, 0)

\* C29: after a badge is removed, the results shown are those for the
\* remaining selected tags and the current text of the search box.
C29_ResultsFollowBadgeRemoval ==
  [][ Len(ui'.selectedTags) < Len(ui.selectedTags) =>
        ui'.allResults = ResultsFor(ui'.input, ui'.selectedTags) ]_vars

C31_ChecksEndReporting ==
  \A p \in CheckIds :
    /\ checks[p].pc \in { "idle", "fetchVersion", "readCache", "fetchEmbeddings",
                          "putEmbeddings", "putVersion", "done" }
    /\ checks[p].pc = "done" => checks[p].reports # <<>>

\* Every update check that was started has ended.
AllChecksFinished == \A p \in CheckIds : checks[p].pc \in { "idle", "done" }

\* C32: when two update checks have run, in any interleaving and with the
\* server publishing in between, and all checks have finished (here: none of
\* them with a failure), the stored descriptor's checksum is the checksum of
\* the stored embeddings.json.
C32_ConcurrentChecksAgree ==
  ( /\ AllChecksFinished
    /\ \A p \in CheckIds :
         /\ checks[p].pc = "done"
         /\ checks[p].reports \in { <<"UPDATE_AVAILABLE">>, <<"UP_TO_DATE">> } ) =>
    (cache[VersionUrl] # 0 =>
       VersionJson(cache[VersionUrl]).checksum = VersionJson(cache[EmbeddingsUrl]).checksum)

C34_NoSecondFetch ==
  [][ /\ (engine'.pc = "fetching" /\ engine' # engine) =>
           (~engine.isReady /\ ~engine.isLoading /\ engine.pc = "idle")
      /\ (engine.isLoading /\ lastSearch' # lastSearch
            /\ lastSearch'.status \in { "returned", "started", "Already initializing" }) =>
           (lastSearch'.status = "Already initializing" /\ engine' = engine)
      /\ (engine.isReady /\ lastSearch' # lastSearch
            /\ lastSearch'.status \in { "returned", "started", "Already initializing" }) =>
           (lastSearch'.status = "returned" /\ engine' = engine) ]_vars

\* C34 witness: a call was rejected with "Already initializing" while the
\* first call's response was being parsed.
C34_Witness ==
  /\ lastSearch.status = "Already initializing"
  /\ engine.isLoading
  /\ engine.pc = "parsing"

\* C35: whenever the engine can be observed, a ready engine holds a manifest
\* and a search index and is not loading, and a ready engine stays ready.
C35_ReadyStateInvariant ==
  /\ [](engine.isReady =>
          /\ engine.metadata # NullManifest
          /\ engine.fuse
          /\ ~engine.isLoading)
  /\ [][engine.isReady => engine'.isReady]_vars

\* C35 witness: a ready engine was called again (initialize returned at
\* once) after its load.
C35_Witness ==
  /\ engine.isReady
  /\ engine.metadata # NullManifest
  /\ lastSearch.status = "returned"

\* C36: a load that fails, by a rejected fetch or a body that does not
\* parse, hands the error to the caller awaiting it and leaves the engine
\* neither ready nor loading, so that the next initialize call starts a
\* new load.
C36_FailedInitializeRecoverable ==
  [][ (engine.pc \in { "fetching", "parsing" } /\ engine'.pc = "idle"
         /\ ~engine'.isReady) =>
        /\ ~engine'.isLoading
        /\ page.phase = "initializing" => page'.phase = "failed"
        /\ initializeStart(engine').pc = "fetching"
        /\ initializeStart(engine').isLoading ]_vars

\* C36 witness: the first load failed (main.js showed the error) and a
\* later initialize call made the engine ready.
C36_Witness ==
  /\ page.phase = "failed"
  /\ engine.isReady
  /\ engine.metadata # NullManifest

\* C37: after any sequence of searches and clicks on Previous, Next and the
\* page numbers, a non-empty result list has its current page between 1 and
\* ceil(length / 25), and a search that returns results shows page 1.
C37_PageStateInvariant ==
  /\ [](Len(ui.allResults) > 0 =>
          /\ 1 <= ui.currentPage
          /\ ui.currentPage <= Ceil(Len(ui.allResults), resultsPerPage))
  /\ [][ (ui' # ui /\ ui'.requested = NoPage /\ Len(ui'.allResults) > 0) =>
            ui'.currentPage = 1 ]_vars

\* C37 witness: clicks have led to page 5 of the 8 pages of 180 results.
C37_Witness ==
  /\ Len(ui.allResults) = MaxResults
  /\ ui.requested = 5
  /\ ui.currentPage = 5
  /\ Ceil(Len(ui.allResults), resultsPerPage) >= 5

\* C38: the fetch handler hands a response to cache.put only when its status
\* is 200: the store gains nothing but the key of a request answered with
\* 200, and a response of another status is returned without being stored.
C38_OnlySuccessfulStored ==
  /\ [](request.pc = "put" => request.status = 200)
  /\ []((request.pc = "done" /\ request.answer = "network" /\ request.status # 200) =>
          Key(request) \notin entries)
  /\ [][ entries' # entries =>
            (request.status = 200 /\ entries' = entries \cup { Key(request) }) ]_vars

\* C38 witness: a request for a path of the shouldCache list was answered
\* by the network with another status than 200 and the store lacks it.
C38_Witness ==
  /\ request.pc = "done"
  /\ request.answer = "network"
  /\ request.status = 404
  /\ shouldCache(request)
  /\ Key(request) \notin entries

RECURSIVE CarriersAmong(_, _)
\* The results, in their order and with their scores, whose chunk carries
\* every tag of the filter.
CarriersAmong(results, tags) ==
  IF results = <<>> THEN <<>>
  ELSE LET rest == CarriersAmong(Tail(results), tags)
       IN  IF \A k \in 1..Len(tags) : Carries(Head(results).chunk, tags[k])
           THEN << Head(results) >> \o rest
           ELSE rest

\* C39: an unlimited search(q, T) on a ready engine returns the results of
\* search(q, []) whose chunk carries every tag of T, in the same relative
\* order and with the same scores.
C39_FilterCommutesWithRanking ==
  (lastSearch.status = "ok" /\ lastSearch.limit = 0 /\ engine.isReady) =>
    lastSearch.results =
      CarriersAmong(search(engine, lastSearch.query, <<>>, 0).results, lastSearch.tags)

\* C39 witness: a keyword search under a tag filter kept some of the
\* unfiltered search's results and dropped others.
C39_Witness ==
  /\ lastSearch.status = "ok"
  /\ lastSearch.limit = 0
  /\ Len(Trim(lastSearch.query)) > 0
  /\ lastSearch.tags # <<>>
  /\ lastSearch.results # <<>>
  /\ Len(lastSearch.results) <
       Len(search(engine, lastSearch.query, <<>>, 0).results)

\* The pieces of the chunks' tag strings a tag can be: every contiguous
\* part of a tags field.
TagCandidates ==
  UNION { IF engine.metadata.chunks[i].tags = Undefined THEN {}
          ELSE { SubSeq(engine.metadata.chunks[i].tags, a, b) :
                   a \in 1..Len(engine.metadata.chunks[i].tags),
                   b \in 1..Len(engine.metadata.chunks[i].tags) }
          : i \in 1..Len(engine.metadata.chunks) }

\* C40: the array a getAllTags call returns holds exactly the non-empty
\* trimmed tags carried by some chunk of the manifest held at the call, each
\* once and in ascending order; and search("", [t]) for a tag t of that
\* array returns at least one chunk, every chunk returned carrying t.
C40_TagsListedAndSearchable ==
  /\ [][ (lastSearch'.status = "tags" /\ lastSearch' # lastSearch) =>
            /\ { lastSearch'.results[i] : i \in 1..Len(lastSearch'.results) } =
                 { t \in TagCandidates \ { <<>> } :
                     \E i \in 1..Len(engine.metadata.chunks) :
                       Carries(engine.metadata.chunks[i], t) }
            /\ \A i \in 1..Len(lastSearch'.results), j \in 1..Len(lastSearch'.results) :
                 i < j => SortsBefore(lastSearch'.results[i], lastSearch'.results[j]) ]_vars
  /\ [](lastSearch.status \notin { "none", "tags" } =>
          /\ lastSearch.status = "ok"
          /\ Len(lastSearch.results) >= 1
          /\ \A i \in 1..Len(lastSearch.results) :
               Carries(lastSearch.results[i].chunk, lastSearch.tags[1]))

\* C40 witness: two chunks tagged "an, ca" and " ca ,tr" gave the array
\* an, ca, tr: the blanks are trimmed and ca is listed once.
C40_Witness ==
  /\ lastSearch.status = "tags"
  /\ lastSearch.results = << an, ca, tr >>
  /\ Len(engine.metadata.chunks) = 2

====
